---- MODULE Spec2Model ----
(***************************************************************************)
(* State-machine model of the wxcc-agent-my-interactions backend: the      *)
(* process-wide token cache (getAccessToken), and the request handlers of  *)
(* GET /api/captures/recent and GET /api/interactions with their upstream  *)
(* calls, fallbacks, chunked capture lookup, normalisation and sort.       *)
(*                                                                         *)
(* The repository holds several variants of the same service.  A variant   *)
(* is named after the file that holds it:                                  *)
(*   "fallback"  src/unnamed/part_002  (REST search with 404 fallback)     *)
(*   "graphql"   src/server.js:269-537 (GraphQL search, capture batches)   *)
(*   "tasks"     src/unnamed/part_000  (token cache, task search, chunks)  *)
(*   "scan"      src/unnamed/part_001  (scan of all captures)              *)
(*   "cachedScan" src/server.js:1-268  (token cache, scan of all captures) *)
(*   "rest"      src/server.js:539-665 (GET /api/recordings)               *)
(***************************************************************************)
EXTENDS Integers, Sequences, FiniteSets, TLC

VARIABLES
    \* ---- token cache (part_000:94, server.js:93) and its callers ----
    tokenCache,   \* [access_token, expires_at]: the process-wide cache
    clock,        \* Math.floor(Date.now() / 1000)
    tpc,          \* caller -> "idle" | "grant" (awaiting axios.post to the token URL)
    tnow,         \* caller -> the `now` its running call captured
    tret,         \* caller -> what its last completed call returned (or threw)
    tcalls,       \* caller -> number of getAccessToken calls it has made
    tcallGrants,  \* caller -> grant calls issued by its current/last call
    grantResp,    \* caller -> the token endpoint's response in flight, or NoResp
    grantCalls,   \* total number of grant calls issued to the token endpoint
    grantSeq      \* serial number of the token endpoint's successful responses

tokenVars == <<tokenCache, clock, tpc, tnow, tret, tcalls, tcallGrants,
               grantResp, grantCalls, grantSeq>>

VARIABLES
    \* ---- one HTTP request and the handler serving it ----
    variant,      \* which variant of the service runs
    route,        \* the route requested
    req,          \* the request: [auth, agentEmail, limit]
    cfg,          \* process.env: [creds, orgId, tokenOrg]
    h,            \* the handler's position and locals:
                  \*   [pc, token, now, interactions, interactionIds, i, allCaptures]
    calls,        \* log of the upstream calls issued, each with its answer
    response      \* the HTTP response sent to the caller (status 0: none yet)

handlerVars == <<variant, route, req, cfg, h, calls, response>>

vars == <<tokenVars, handlerVars>>

----------------------------------------------------------------------------
\* Bounds of the model.
MaxCalls == 3
MaxClock == 120
MaxIx == 2
MaxIds == 21
MaxResp == 2
MaxPlainResp == 1

\* Program constants.
MarginSec == 60
DefaultExpiresIn == 3600
MAX_IDS_PER_CAPTURE_QUERY == 10
DefaultLimit == 200
MaxLimit == 1000

Callers == {1, 2}
NoToken == 0            \* tokenCache.access_token = null
NoResp == [status |-> 0]
Threw == -1             \* the call rejected (axios error propagated)
ClockSteps == {20, 60}
\* expires_in values the token endpoint may answer; 0 stands for a response
\* without expires_in (falsy, so `|| 3600` applies).
ExpiresIn == {0, 60, 100}

----------------------------------------------------------------------------
\* JavaScript values.  Field values are strings; a field that is absent
\* reads as Undefined, and `x || null` yields Null.
Undefined == "<undefined>"
Null == "<null>"
Falsy(x) == x \in {Undefined, Null, ""}
\* `a || b`
Or(a, b) == IF Falsy(a) THEN b ELSE a
\* An optional number: <<>> is null, <<n>> is n.
NoNumber == <<>>

\* String(x): an absent id becomes the string "undefined".
StringOf(x) ==
    CASE x = Undefined -> "undefined"
      [] x = Null -> "null"
      [] OTHER -> x

\* s.trim() and s.toLowerCase() on the strings of the model.
Trim(s) == IF s = " " THEN "" ELSE s
ToLowerCase(s) ==
    CASE s = "A@B.COM" -> "a@b.com"
      [] s = "Other@B.com" -> "other@b.com"
      [] OTHER -> s

\* Number(s) on the query strings of the model.
NumberOf(s) ==
    CASE s = "1" -> 1
      [] s = "2" -> 2
      [] s = "3" -> 3
      [] s = "-1" -> 0 - 1
      [] s = "11" -> 11
      [] s = "2000" -> 2000

\* new Date(x).getTime().  new Date(null) is the epoch (0).  Instants are in
\* milliseconds; the instants of 2024 are counted from a base that keeps them
\* positive and inside TLC's integers: only their sign, order and differences
\* are used.
TBefore1970 == "1969-12-31T23:59:59.000Z"
TStart == "2024-05-01T10:00:00.000Z"
TEnd == "2024-05-01T10:05:00.000Z"
TLate == "2024-05-01T11:00:00.000Z"
THalf == "2024-05-01T10:05:00.500Z"
\* A string that is no date: new Date(x) is an Invalid Date, its time NaN.
BadDate == "n/a"
Parses(x) == x # BadDate
DateMs(x) ==
    CASE x = Null -> 0
      [] x = TBefore1970 -> 0 - 1000
      [] x = TStart -> 1000000
      [] x = TEnd -> 1300000
      [] x = THalf -> 1300500
      [] x = TLate -> 4600000

Min(a, b) == IF a <= b THEN a ELSE b
Max(a, b) == IF a >= b THEN a ELSE b
\* Mutant of Slice: the end index is taken as inclusive.
SliceInclusive(arr, from, to) == SubSeq(arr, from + 1, Min(to + 1, Len(arr)))

\* arr.slice(from, to) with 0 <= from <= to: 0-based, end exclusive, clamped.
Slice(arr, from, to) == SubSeq(arr, from + 1, Min(to, Len(arr)))
\* arr.slice(0, n): a negative n counts from the end.
SliceTo(arr, n) == IF n >= 0 THEN SubSeq(arr, 1, Min(n, Len(arr)))
                   ELSE SubSeq(arr, 1, Len(arr) + n)
\* All sequences over S of length at most n.
SeqsUpTo(S, n) == UNION {[1..k -> S] : k \in 0..n}

----------------------------------------------------------------------------
\* Upstream data: what the search and capture endpoints may answer with.

IxRecord(id, start, end, ani, email) ==
    [interactionId |-> id, taskId |-> Undefined, startTime |-> start, endTime |-> end,
     ani |-> ani, queueName |-> IF ani = Undefined THEN Undefined ELSE "Support",
     disposition |-> IF ani = Undefined THEN Undefined ELSE "Resolved",
     agentEmail |-> email]
\* The interaction records of the captures route: a complete one, one without
\* times, one without an interactionId.
RichIx ==
    { IxRecord("X1", TStart, TEnd, "+15550001", Undefined),
      IxRecord("X2", Undefined, Undefined, Undefined, Undefined),
      IxRecord(Undefined, TLate, Undefined, "+15550002", Undefined) }
\* n interactions with the ids "1".."n" and no other field.
PlainList(n) ==
    [k \in 1..n |-> IxRecord(ToString(k), Undefined, Undefined, Undefined, Undefined)]
PlainIds == {ToString(k) : k \in 1..(MaxIds + 1)}
\* The interaction records of the interactions route differ in agentEmail.
EmailIx ==
    { IxRecord("X1", TStart, TEnd, "+15550001", "a@b.com"),
      IxRecord("X2", TStart, TEnd, "+15550001", "A@B.COM"),
      IxRecord("X3", TStart, TEnd, "+15550001", "other@b.com"),
      IxRecord("X4", TStart, TEnd, "+15550001", Undefined) }
\* The sizes of the plain lists: around the multiples of the batch cap.
PlainSizes == {n \in 1..MaxIds : n % MAX_IDS_PER_CAPTURE_QUERY <= 1 \/ n = MaxIds}
\* The task items of the GraphQL task search (part_000:177): `id` only.
TaskItem(id) == [id |-> id, startTime |-> Undefined, agentEmail |-> Undefined]
TaskLists ==
    {[k \in 1..n |-> TaskItem(ToString(k))] : n \in PlainSizes}
    \cup {<<>>, <<TaskItem(Undefined)>>, <<TaskItem(Undefined), TaskItem("1")>>}
\* The item lists a search may answer with, by kind of search.
SearchResults(kind) ==
    CASE kind = "interactions" -> SeqsUpTo(EmailIx, MaxIx)
      [] kind = "tasks" -> TaskLists
      [] OTHER -> SeqsUpTo(RichIx, MaxIx) \cup {PlainList(n) : n \in PlainSizes}

BlankCapture ==
    [captureId |-> Undefined, id |-> Undefined, interactionId |-> Undefined,
     taskId |-> Undefined, createdAt |-> Undefined, url |-> Undefined,
     playbackUrl |-> Undefined, downloadUrl |-> Undefined,
     mediaFiles0Url |-> Undefined, linksPlayback |-> Undefined,
     linksDownload |-> Undefined, filesUrl |-> Undefined,
     startTime |-> Undefined, agentEmail |-> Undefined]
\* The capture records the store may answer with when the batch holds the
\* ids of RichIx: with each kind of media link, with none, with and without
\* createdAt and interactionId.
RichCaptures ==
    { [BlankCapture EXCEPT !.captureId = "C1", !.interactionId = "X1",
                           !.downloadUrl = "https://media/1"],
      [BlankCapture EXCEPT !.captureId = "C2", !.interactionId = "X2",
                           !.createdAt = TLate, !.linksPlayback = "https://media/2"],
      [BlankCapture EXCEPT !.id = "C3", !.interactionId = "X2",
                           !.createdAt = TBefore1970, !.url = "https://media/3"],
      [BlankCapture EXCEPT !.captureId = "C4", !.interactionId = "X1",
                           !.createdAt = TLate],
      [BlankCapture EXCEPT !.captureId = "C5", !.url = "https://media/5"] }
\* For a batch of plain ids: a capture of its first id with a media link and
\* one without.
PlainCaptures(id) ==
    { [BlankCapture EXCEPT !.captureId = "P", !.id = "P", !.interactionId = id,
                           !.taskId = id, !.url = "https://media/p",
                           !.downloadUrl = "https://media/p"],
      [BlankCapture EXCEPT !.captureId = "Q", !.id = "Q", !.interactionId = id,
                           !.taskId = id] }
CaptureResults(batch) ==
    IF batch = <<>> THEN {<<>>}
    ELSE IF batch[1] \in PlainIds THEN SeqsUpTo(PlainCaptures(batch[1]), MaxPlainResp)
    ELSE SeqsUpTo(RichCaptures, MaxResp)

\* An upstream call's answer: an HTTP status with the items of its body.
\* NoStatus is an axios error without a response (timeout, network).
NoStatus == 0
Answer(status, items) == [status |-> status, items |-> items]
ErrorAnswers == {Answer(s, <<>>) : s \in {404, 400, 503, NoStatus}}
TokenAnswers == {Answer(s, <<>>) : s \in {200, 401, NoStatus}}
SearchAnswers(kind) == {Answer(200, items) : items \in SearchResults(kind)} \cup ErrorAnswers
CaptureAnswers(batch) == {Answer(200, items) : items \in CaptureResults(batch)} \cup ErrorAnswers

----------------------------------------------------------------------------
\* The handler's state as one value, and the steps on it.  A step runs the
\* handler from one await to the next: it takes the answer of the pending
\* upstream call and either issues the next call or sends the response.

St == [h |-> h, calls |-> calls, response |-> response]
Apply(st) == h' = st.h /\ calls' = st.calls /\ response' = st.response

NoTokenYet == [src |-> "none", id |-> 0]
FwdToken == [src |-> "fwd", id |-> 0]
SvcToken(n) == [src |-> "grant", id |-> n]

StartH == [pc |-> "start", token |-> NoTokenYet, now |-> 0, interactions |-> <<>>,
           interactionIds |-> <<>>, i |-> 0, allCaptures |-> <<>>]
NoResponse == [status |-> 0, error |-> Undefined, items |-> <<>>, window |-> FALSE]

\* `axios.post(url, payload, { headers })`: the call is logged as pending.
Issue(st, pc, ep, payload) ==
    [st EXCEPT !.h.pc = pc,
               !.calls = Append(@, [step |-> pc, ep |-> ep, payload |-> payload,
                                    token |-> st.h.token, settled |-> FALSE,
                                    status |-> NoStatus, items |-> <<>>])]
\* The pending call (the last one issued) settles with `ans`.
Settle(st, ans) ==
    [st EXCEPT !.calls[Len(st.calls)].settled = TRUE,
               !.calls[Len(st.calls)].status = ans.status,
               !.calls[Len(st.calls)].items = ans.items]
\* `res.status(s).json(body)` / `res.json(body)`
Respond(st, resp) == [st EXCEPT !.h.pc = "done", !.response = resp]
JsonOk(items, window) ==
    [status |-> 200, error |-> Undefined, items |-> items, window |-> window]
JsonError(status, msg) ==
    [status |-> status, error |-> msg, items |-> <<>>, window |-> FALSE]

\* pick(err, route): `err?.response?.status || 500`
PickStatus(status) == IF status = NoStatus THEN 500 ELSE status
\* Mutant of CatchUpstream: the error is swallowed into an empty success.
CatchUpstreamAsEmpty(st, ans) == Respond(st, JsonOk(<<>>, TRUE))

\* The catch block of a route: the upstream error `ans` was thrown.
CatchUpstream(st, ans) == Respond(st, JsonError(PickStatus(ans.status), "upstream error"))

\* `(req.query.agentEmail || "").toString().trim()`
AgentEmail == Trim(Or(req.agentEmail, ""))
\* `Math.min(1000, Number(req.query.limit || 200))`
Limit == Min(MaxLimit, IF Falsy(req.limit) THEN DefaultLimit ELSE NumberOf(req.limit))

----------------------------------------------------------------------------
\* Normalisation (part_002:253-332, server.js:471-524).

\* `new Map(interactions.map((it) => [String(it.interactionId), it]))`, then
\* `[...ixById.keys()]`: the keys in order of first insertion.
RECURSIVE MapKeys(_)
MapKeys(items) ==
    IF items = <<>> THEN <<>>
    ELSE LET rest == MapKeys(SubSeq(items, 1, Len(items) - 1))
             k == StringOf(items[Len(items)].interactionId)
         IN IF \E j \in 1..Len(rest) : rest[j] = k THEN rest ELSE Append(rest, k)
EmptyIx == IxRecord(Undefined, Undefined, Undefined, Undefined, Undefined)
\* Mutant of MapGet: the records are looked up by taskId.
MapGetByTaskId(items, key) ==
    LET S == {j \in 1..Len(items) : StringOf(items[j].taskId) = key}
    IN IF S = {} THEN EmptyIx ELSE items[CHOOSE j \in S : \A x \in S : x <= j]

\* `ixById.get(key) || {}`: the last record inserted under the key.
RECURSIVE MapGet(_, _)
MapGet(items, key) ==
    IF items = <<>> THEN EmptyIx
    ELSE IF StringOf(items[Len(items)].interactionId) = key THEN items[Len(items)]
    ELSE MapGet(SubSeq(items, 1, Len(items) - 1), key)

\* Mutant of pickUrl: the download link is tried before the playback link.
pickUrlDownloadFirst(rec) ==
    Or(rec.url, Or(rec.downloadUrl, Or(rec.playbackUrl, Or(rec.mediaFiles0Url,
       Or(rec.linksDownload, Or(rec.linksPlayback, Null))))))

\* pickUrl of part_002:301-308
pickUrl(rec) ==
    Or(rec.url, Or(rec.playbackUrl, Or(rec.downloadUrl, Or(rec.mediaFiles0Url,
       Or(rec.linksPlayback, Or(rec.linksDownload, Null))))))

\* Mutant of DurationSec: the seconds are truncated, not rounded.
DurationSecTruncated(ix) ==
    IF ~Falsy(ix.startTime) /\ ~Falsy(ix.endTime)
    THEN IF Parses(ix.startTime) /\ Parses(ix.endTime)
         THEN <<Max(0, (DateMs(ix.endTime) - DateMs(ix.startTime)) \div 1000)>>
         ELSE NoNumber
    ELSE NoNumber

\* `Math.max(0, Math.round((new Date(ix.endTime) - new Date(ix.startTime)) / 1000))`
\* or null; Math.round rounds half up.  With an Invalid Date the difference
\* is NaN, Math.max(0, NaN) is NaN, and res.json writes NaN as null.
DurationSec(ix) ==
    IF ~Falsy(ix.startTime) /\ ~Falsy(ix.endTime)
    THEN IF Parses(ix.startTime) /\ Parses(ix.endTime)
         THEN <<Max(0, (DateMs(ix.endTime) - DateMs(ix.startTime) + 500) \div 1000)>>
         ELSE NoNumber
    ELSE NoNumber

\* The `.map((c) => ...)` callback of part_002:311-328.
NormalizeCapture(c, interactions) ==
    LET ix == MapGet(interactions, StringOf(c.interactionId))
    IN [captureId |-> Or(c.captureId, Or(c.id, Null)),
        interactionId |-> Or(c.interactionId, Null),
        taskId |-> Or(c.taskId, Or(ix.taskId, Null)),
        createdAt |-> Or(c.createdAt, Or(ix.startTime, Null)),
        url |-> pickUrl(c),
        ani |-> Or(ix.ani, Null),
        queueName |-> Or(ix.queueName, Null),
        disposition |-> Or(ix.disposition, Null),
        durationSec |-> DurationSec(ix)]

\* `.filter((x) => !!x.url)`
HasUrl(x) == ~Falsy(x.url)

\* The comparator `(a, b) => new Date(b.createdAt) - new Date(a.createdAt)`.
CompareCreatedAt(a, b) == DateMs(b.createdAt) - DateMs(a.createdAt)
\* Array.prototype.sort is stable: x is placed after every element that does
\* not compare greater than it.
RECURSIVE InsertSorted(_, _)
InsertSorted(sorted, x) ==
    IF sorted = <<>> THEN <<x>>
    ELSE IF CompareCreatedAt(Head(sorted), x) <= 0
         THEN <<Head(sorted)>> \o InsertSorted(Tail(sorted), x)
         ELSE <<x>> \o sorted
RECURSIVE SortByCreatedAt(_)
SortByCreatedAt(items) ==
    IF items = <<>> THEN <<>>
    ELSE InsertSorted(SortByCreatedAt(SubSeq(items, 1, Len(items) - 1)), items[Len(items)])

\* part_002:310-332: map, filter, sort, slice.
NormalizedItems(allCaptures, interactions, limit) ==
    LET normalized == SelectSeq([k \in 1..Len(allCaptures) |->
                                    NormalizeCapture(allCaptures[k], interactions)], HasUrl)
    IN SliceTo(SortByCreatedAt(normalized), limit)

----------------------------------------------------------------------------
\* No request is being served (the token specification).
NoRequest ==
    /\ variant = "none" /\ route = "none"
    /\ req = [auth |-> FALSE, agentEmail |-> Undefined, limit |-> Undefined]
    /\ cfg = [creds |-> TRUE, orgId |-> TRUE, tokenOrg |-> TRUE]
    /\ h = [StartH EXCEPT !.pc = "done"]
    /\ calls = <<>>
    /\ response = NoResponse

----------------------------------------------------------------------------
\* getAccessToken, cached client-credentials variant.

\* Mutant of CacheValid: no margin before the expiry.
CacheValidNoMargin(cache, now) ==
    cache.access_token # NoToken /\ cache.expires_at > now

\* Mutant of CacheValid: a margin of two minutes instead of one.
CacheValidWideMargin(cache, now) ==
    cache.access_token # NoToken /\ cache.expires_at > now + 2 * MarginSec

\* `tokenCache.access_token && tokenCache.expires_at > now + 60`
CacheValid(cache, now) ==
    cache.access_token # NoToken /\ cache.expires_at > now + MarginSec

\* Mutant of ExpiresAt: the `|| 3600` default is lost.
ExpiresAtNoDefault(now, expires_in) == now + expires_in

\* `now + (resp.data.expires_in || 3600)`
ExpiresAt(now, expires_in) ==
    now + (IF expires_in = 0 THEN DefaultExpiresIn ELSE expires_in)

TotalCalls == tcalls[1] + tcalls[2]

\* A request handler calls getAccessToken(): the synchronous part up to the
\* first await.  A cache hit returns at once; a miss issues one grant call.
Call(p) ==
    /\ tpc[p] = "idle"
    /\ TotalCalls < MaxCalls
    /\ tcalls' = [tcalls EXCEPT ![p] = @ + 1]
    /\ tnow' = [tnow EXCEPT ![p] = clock]
    /\ IF CacheValid(tokenCache, clock)
       THEN /\ tret' = [tret EXCEPT ![p] = tokenCache.access_token]
            /\ tcallGrants' = [tcallGrants EXCEPT ![p] = 0]
            /\ UNCHANGED <<tpc, grantCalls>>
       ELSE /\ tpc' = [tpc EXCEPT ![p] = "grant"]
            /\ tcallGrants' = [tcallGrants EXCEPT ![p] = 1]
            /\ grantCalls' = grantCalls + 1
            /\ UNCHANGED tret
    /\ UNCHANGED <<tokenCache, clock, grantResp, grantSeq>>
    /\ UNCHANGED handlerVars

\* The token endpoint answers an outstanding grant call: 200 with a fresh
\* access_token, or an HTTP error / timeout (axios rejects).
TokenEndpoint(p) ==
    /\ tpc[p] = "grant"
    /\ grantResp[p] = NoResp
    /\ \/ \E e \in ExpiresIn :
             /\ grantSeq' = grantSeq + 1
             /\ grantResp' = [grantResp EXCEPT ![p] =
                    [status |-> 200, access_token |-> grantSeq + 1, expires_in |-> e]]
       \/ \E s \in {401} :
             /\ grantResp' = [grantResp EXCEPT ![p] = [status |-> s]]
             /\ UNCHANGED grantSeq
    /\ UNCHANGED <<tokenCache, clock, tpc, tnow, tret, tcalls, tcallGrants, grantCalls>>
    /\ UNCHANGED handlerVars

\* Mutant of GrantResume: the expiry is counted from the time the response
\* is processed, not from the `now` read before the grant call.
GrantResumeStampsAtResponse(p) ==
    /\ tpc[p] = "grant"
    /\ grantResp[p] # NoResp
    /\ IF grantResp[p].status = 200
       THEN /\ tokenCache' = [access_token |-> grantResp[p].access_token,
                              expires_at |-> ExpiresAt(clock, grantResp[p].expires_in)]
            /\ tret' = [tret EXCEPT ![p] = grantResp[p].access_token]
       ELSE /\ tret' = [tret EXCEPT ![p] = Threw]
            /\ UNCHANGED tokenCache
    /\ tpc' = [tpc EXCEPT ![p] = "idle"]
    /\ grantResp' = [grantResp EXCEPT ![p] = NoResp]
    /\ UNCHANGED <<clock, tnow, tcalls, tcallGrants, grantCalls, grantSeq>>
    /\ UNCHANGED handlerVars

\* Mutant of GrantResume: the cache is written only when the granted token
\* is newer than the cached one.
GrantResumeKeepNewest(p) ==
    /\ tpc[p] = "grant"
    /\ grantResp[p] # NoResp
    /\ IF grantResp[p].status = 200
       THEN /\ tokenCache' =
                  IF grantResp[p].access_token > tokenCache.access_token
                  THEN [access_token |-> grantResp[p].access_token,
                        expires_at |-> ExpiresAt(tnow[p], grantResp[p].expires_in)]
                  ELSE tokenCache
            /\ tret' = [tret EXCEPT ![p] = grantResp[p].access_token]
       ELSE /\ tret' = [tret EXCEPT ![p] = Threw]
            /\ UNCHANGED tokenCache
    /\ tpc' = [tpc EXCEPT ![p] = "idle"]
    /\ grantResp' = [grantResp EXCEPT ![p] = NoResp]
    /\ UNCHANGED <<clock, tnow, tcalls, tcallGrants, grantCalls, grantSeq>>
    /\ UNCHANGED handlerVars

\* The awaited axios.post settles and getAccessToken resumes: on success it
\* writes both cache fields and returns the token; on failure it throws.
GrantResume(p) ==
    /\ tpc[p] = "grant"
    /\ grantResp[p] # NoResp
    /\ IF grantResp[p].status = 200
       THEN /\ tokenCache' = [access_token |-> grantResp[p].access_token,
                              expires_at |-> ExpiresAt(tnow[p], grantResp[p].expires_in)]
            /\ tret' = [tret EXCEPT ![p] = grantResp[p].access_token]
       ELSE /\ tret' = [tret EXCEPT ![p] = Threw]
            /\ UNCHANGED tokenCache
    /\ tpc' = [tpc EXCEPT ![p] = "idle"]
    /\ grantResp' = [grantResp EXCEPT ![p] = NoResp]
    /\ UNCHANGED <<clock, tnow, tcalls, tcallGrants, grantCalls, grantSeq>>
    /\ UNCHANGED handlerVars

\* Wall-clock time passes.
Tick ==
    /\ \E d \in ClockSteps : clock + d <= MaxClock /\ clock' = clock + d
    /\ UNCHANGED <<tokenCache, tpc, tnow, tret, tcalls, tcallGrants,
                   grantResp, grantCalls, grantSeq>>
    /\ UNCHANGED handlerVars

CallersIdle ==
    /\ tpc = [p \in Callers |-> "idle"]
    /\ tnow = [p \in Callers |-> 0]
    /\ tret = [p \in Callers |-> NoToken]
    /\ tcalls = [p \in Callers |-> 0]
    /\ tcallGrants = [p \in Callers |-> 0]
    /\ grantResp = [p \in Callers |-> NoResp]

\* `let tokenCache = { access_token: null, expires_at: 0 }`
TokenInit ==
    /\ tokenCache = [access_token |-> NoToken, expires_at |-> 0]
    /\ clock = 0
    /\ grantCalls = 0
    /\ grantSeq = 0
    /\ CallersIdle
    /\ NoRequest

TokenNext ==
    \/ \E p \in Callers : Call(p)
    \/ \E p \in Callers : TokenEndpoint(p)
    \/ \E p \in Callers : GrantResume(p)
    \/ Tick

SpecToken == TokenInit /\ [][TokenNext]_vars

----------------------------------------------------------------------------
\* Variant "fallback" (part_002), GET /api/captures/recent.

\* The search payload of part_002:224-233.
InteractionsPayload ==
    [filters |-> <<[field |-> "agentEmail", value |-> AgentEmail],
                   [field |-> "interactionType", value |-> "VOICE"],
                   [field |-> "startTime", value |-> "window"]>>,
     limit |-> Limit,
     sort |-> "startTime DESC",
     fields |-> "interactionId,taskId,startTime,endTime,ani,queueName,disposition"]

\* part_002:301-334: normalise, sort, truncate and answer.
FbFinish(st) ==
    Respond(st, JsonOk(NormalizedItems(st.h.allCaptures, st.h.interactions, Limit), TRUE))

\* Mutant of FbIssueBatch: the query of the following batch is issued along
\* with the batch's, without awaiting it.
FbIssueBatchPair(st) ==
    Issue(Issue(st, "cap", "captures/query",
                [ids |-> Slice(st.h.interactionIds, st.h.i,
                               st.h.i + MAX_IDS_PER_CAPTURE_QUERY)]),
          "cap", "captures/query",
          [ids |-> Slice(st.h.interactionIds, st.h.i + MAX_IDS_PER_CAPTURE_QUERY,
                         st.h.i + 2 * MAX_IDS_PER_CAPTURE_QUERY)])

\* part_002:285-288: the loop body up to `await postCapturesQuery(batch)`.
FbIssueBatch(st) ==
    Issue(st, "cap", "captures/query",
          [ids |-> Slice(st.h.interactionIds, st.h.i, st.h.i + MAX_IDS_PER_CAPTURE_QUERY)])

\* part_002:289/293 and 298-299: push the items, break when the limit is
\* reached, else step to the next batch or leave the loop.
FbAfterBatch(st, items) ==
    LET st1 == [st EXCEPT !.h.allCaptures = @ \o items]
        st2 == [st1 EXCEPT !.h.i = @ + MAX_IDS_PER_CAPTURE_QUERY]
    IN IF Len(st1.h.allCaptures) >= Limit THEN FbFinish(st1)
       ELSE IF st2.h.i < Len(st2.h.interactionIds) THEN FbIssueBatch(st2)
       ELSE FbFinish(st2)

\* Mutant of FbAfterSearch: the empty list is not tested and the first
\* capture query is issued with whatever ids there are.
FbAfterSearchQueriesAnyway(st, items) ==
    FbIssueBatch([st EXCEPT !.h.interactions = items,
                            !.h.interactionIds = MapKeys(items),
                            !.h.i = 0])

\* part_002:250-257: after fetchInteractions.
FbAfterSearch(st, items) ==
    IF Len(items) = 0 THEN Respond(st, JsonOk(<<>>, FALSE))
    ELSE FbIssueBatch([st EXCEPT !.h.interactions = items,
                                 !.h.interactionIds = MapKeys(items),
                                 !.h.i = 0])

\* part_002:215-238: after `await getAccessToken(req)`.
FbAfterToken(st) ==
    IF AgentEmail = "" THEN Respond(st, JsonError(400, "agentEmail is required"))
    ELSE Issue(st, "search", "data/historical/interactions/search", InteractionsPayload)

\* Mutant of GetAccessTokenReq: the credentials are not tested.
GetAccessTokenReqUnchecked(st) ==
    IF req.auth THEN [st EXCEPT !.h.token = FwdToken]
    ELSE Issue(st, "token", "oauth/token", [grant_type |-> "client_credentials"])

\* getAccessToken(req) of part_002:35-51 up to its await: it returns the
\* forwarded token at once, throws, or issues the grant call.
GetAccessTokenReq(st) ==
    IF req.auth THEN [st EXCEPT !.h.token = FwdToken]
    ELSE IF ~cfg.creds THEN Respond(st, JsonError(500, "Service credentials missing"))
    ELSE Issue(st, "token", "oauth/token", [grant_type |-> "client_credentials"])

\* The search payload of GET /api/interactions (part_002:349-358, 368-371).
IxPayload ==
    [filters |-> <<[field |-> "agentEmail", value |-> AgentEmail],
                   [field |-> "interactionType", value |-> "VOICE"],
                   [field |-> "startTime", value |-> "window"]>>,
     limit |-> 50,
     sort |-> "startTime DESC",
     fields |-> "interactionId,startTime,endTime,ani,dnis,queueName,disposition"]
\* The payload of the retry after a 400 (part_002:380-386).
IxRetryPayload ==
    [IxPayload EXCEPT !.filters = <<[field |-> "interactionType", value |-> "VOICE"],
                                    [field |-> "startTime", value |-> "window"]>>]

\* part_002:344-371: GET /api/interactions after `await getAccessToken(req)`.
IxAfterToken(st) ==
    IF AgentEmail = "" THEN Respond(st, JsonError(400, "agentEmail is required"))
    ELSE Issue(st, "search", "data/historical/interactions/search", IxPayload)

\* Both routes of part_002 start with `const token = await getAccessToken(req)`.
FbRouteAfterToken(st) ==
    IF route = "captures" THEN FbAfterToken(st) ELSE IxAfterToken(st)

\* part_002:212-214, 341-343: the request arrives.
FbStart ==
    /\ variant = "fallback" /\ h.pc = "start"
    /\ LET st == GetAccessTokenReq(St)
       IN Apply(IF st.h.token = FwdToken THEN FbRouteAfterToken(st) ELSE st)
    /\ UNCHANGED <<variant, route, req, cfg, tokenVars>>

\* part_002:52-56: the grant call settles.  A failure is rethrown as a new
\* Error without a response, so pick() reports 500.
FbToken ==
    /\ variant = "fallback" /\ h.pc = "token"
    /\ \E ans \in TokenAnswers :
          LET st == Settle(St, ans)
          IN IF ans.status = 200
             THEN Apply(FbRouteAfterToken([st EXCEPT !.h.token = SvcToken(1)]))
             ELSE Apply(Respond(st, JsonError(500, "Token request failed")))
    /\ UNCHANGED <<variant, route, req, cfg, tokenVars>>

\* Mutant of FbSearch: a 404 is thrown like any other error.
FbSearchNoFallback ==
    /\ variant = "fallback" /\ route = "captures" /\ h.pc = "search"
    /\ \E ans \in SearchAnswers("captures") :
          LET st == Settle(St, ans)
          IN IF ans.status = 200 THEN Apply(FbAfterSearch(st, ans.items))
             ELSE Apply(CatchUpstream(st, ans))
    /\ UNCHANGED <<variant, route, req, cfg, tokenVars>>

\* part_002:238-247: the primary search settles.
FbSearch ==
    /\ variant = "fallback" /\ route = "captures" /\ h.pc = "search"
    /\ \E ans \in SearchAnswers("captures") :
          LET st == Settle(St, ans)
          IN IF ans.status = 200 THEN Apply(FbAfterSearch(st, ans.items))
             ELSE IF ans.status = 404
             THEN Apply(Issue(st, "altSearch", "analytics/interactions/search",
                              InteractionsPayload))
             ELSE Apply(CatchUpstream(st, ans))
    /\ UNCHANGED <<variant, route, req, cfg, tokenVars>>

\* part_002:243-244: the secondary search settles.
FbAltSearch ==
    /\ variant = "fallback" /\ route = "captures" /\ h.pc = "altSearch"
    /\ \E ans \in SearchAnswers("captures") :
          LET st == Settle(St, ans)
          IN IF ans.status = 200 THEN Apply(FbAfterSearch(st, ans.items))
             ELSE Apply(CatchUpstream(st, ans))
    /\ UNCHANGED <<variant, route, req, cfg, tokenVars>>

\* The batch of the pending capture call.
PendingBatch == calls[Len(calls)].payload.ids

\* Mutant of FbCap: after a 404 the fallback searches all the ids of the
\* request, not the batch's.
FbCapFallbackAllIds ==
    /\ variant = "fallback" /\ route = "captures" /\ h.pc = "cap"
    /\ \E ans \in CaptureAnswers(PendingBatch) :
          LET st == Settle(St, ans)
          IN IF ans.status = 200 THEN Apply(FbAfterBatch(st, ans.items))
             ELSE IF ans.status = 404
             THEN Apply(Issue(st, "capAlt", "data/historical/captures/search",
                              [ids |-> h.interactionIds, limit |-> Len(h.interactionIds)]))
             ELSE Apply(CatchUpstream(st, ans))
    /\ UNCHANGED <<variant, route, req, cfg, tokenVars>>

\* part_002:259-270, 288-296: postCapturesQuery settles.
FbCap ==
    /\ variant = "fallback" /\ route = "captures" /\ h.pc = "cap"
    /\ \E ans \in CaptureAnswers(PendingBatch) :
          LET st == Settle(St, ans)
          IN IF ans.status = 200 THEN Apply(FbAfterBatch(st, ans.items))
             ELSE IF ans.status = 404
             THEN Apply(Issue(st, "capAlt", "data/historical/captures/search",
                              [ids |-> PendingBatch, limit |-> Len(PendingBatch)]))
             ELSE Apply(CatchUpstream(st, ans))
    /\ UNCHANGED <<variant, route, req, cfg, tokenVars>>

\* part_002:272-283, 292-293: postCapturesSearch settles.
FbCapAlt ==
    /\ variant = "fallback" /\ route = "captures" /\ h.pc = "capAlt"
    /\ \E ans \in CaptureAnswers(PendingBatch) :
          LET st == Settle(St, ans)
          IN IF ans.status = 200 THEN Apply(FbAfterBatch(st, ans.items))
             ELSE Apply(CatchUpstream(st, ans))
    /\ UNCHANGED <<variant, route, req, cfg, tokenVars>>

----------------------------------------------------------------------------
\* Variant "fallback" (part_002), GET /api/interactions.

\* Mutant of MatchesAgent: the comparison is case-sensitive.
MatchesAgentExactCase(x) == Or(x.agentEmail, "") = AgentEmail

\* `items.filter((x) => (x.agentEmail || "").toLowerCase() === agentEmail.toLowerCase())`
MatchesAgent(x) == ToLowerCase(Or(x.agentEmail, "")) = ToLowerCase(AgentEmail)

\* part_002:367-390: the primary search settles.
IxSearch ==
    /\ variant = "fallback" /\ route = "interactions" /\ h.pc = "search"
    /\ \E ans \in SearchAnswers("interactions") :
          LET st == Settle(St, ans)
          IN IF ans.status = 200 THEN Apply(Respond(st, JsonOk(ans.items, FALSE)))
             ELSE IF ans.status = 404
             THEN Apply(Issue(st, "altSearch", "analytics/interactions/search", IxPayload))
             ELSE IF ans.status = 400
             THEN Apply(Issue(st, "retry", "data/historical/interactions/search",
                              IxRetryPayload))
             ELSE Apply(CatchUpstream(st, ans))
    /\ UNCHANGED <<variant, route, req, cfg, tokenVars>>

\* Mutant of IxAltSearch: a 400 of the secondary search is followed by the
\* retry without the agent filter.
IxAltSearchChained ==
    /\ variant = "fallback" /\ route = "interactions" /\ h.pc = "altSearch"
    /\ \E ans \in SearchAnswers("interactions") :
          LET st == Settle(St, ans)
          IN IF ans.status = 200 THEN Apply(Respond(st, JsonOk(ans.items, FALSE)))
             ELSE IF ans.status = 400
             THEN Apply(Issue(st, "retry", "data/historical/interactions/search",
                              IxRetryPayload))
             ELSE Apply(CatchUpstream(st, ans))
    /\ UNCHANGED <<variant, route, req, cfg, tokenVars>>

\* part_002:375-378, 393: the secondary search settles.
IxAltSearch ==
    /\ variant = "fallback" /\ route = "interactions" /\ h.pc = "altSearch"
    /\ \E ans \in SearchAnswers("interactions") :
          LET st == Settle(St, ans)
          IN IF ans.status = 200 THEN Apply(Respond(st, JsonOk(ans.items, FALSE)))
             ELSE Apply(CatchUpstream(st, ans))
    /\ UNCHANGED <<variant, route, req, cfg, tokenVars>>

\* part_002:380-387, 393: the retry without the agent filter settles.
IxRetry ==
    /\ variant = "fallback" /\ route = "interactions" /\ h.pc = "retry"
    /\ \E ans \in SearchAnswers("interactions") :
          LET st == Settle(St, ans)
          IN IF ans.status = 200
             THEN Apply(Respond(st, JsonOk(SelectSeq(ans.items, MatchesAgent), FALSE)))
             ELSE Apply(CatchUpstream(st, ans))
    /\ UNCHANGED <<variant, route, req, cfg, tokenVars>>

----------------------------------------------------------------------------
\* Variant "graphql" (server.js:269-537), GET /api/captures/recent.

\* The variables of the GraphQL search (server.js:408-413).
GqVariables == [agent |-> AgentEmail, limit |-> Min(MaxLimit, Limit)]

\* server.js:493-526: the same normalisation as part_002.
GqFinish(st) ==
    Respond(st, JsonOk(NormalizedItems(st.h.allCaptures, st.h.interactions, Limit), TRUE))

\* server.js:486-488: the loop body up to `await postCapturesQuery(batch)`.
GqIssueBatch(st) ==
    Issue(st, "cap", "captures/query",
          [ids |-> Slice(st.h.interactionIds, st.h.i, st.h.i + MAX_IDS_PER_CAPTURE_QUERY)])

\* server.js:489-491
GqAfterBatch(st, items) ==
    LET st1 == [st EXCEPT !.h.allCaptures = @ \o items]
        st2 == [st1 EXCEPT !.h.i = @ + MAX_IDS_PER_CAPTURE_QUERY]
    IN IF Len(st1.h.allCaptures) >= Limit THEN GqFinish(st1)
       ELSE IF st2.h.i < Len(st2.h.interactionIds) THEN GqIssueBatch(st2)
       ELSE GqFinish(st2)

\* server.js:450-465: after `await getAccessToken(req)`.
GqAfterToken(st) ==
    IF AgentEmail = "" THEN Respond(st, JsonError(400, "agentEmail is required"))
    ELSE Issue(st, "search", "v1/search", GqVariables)

\* server.js:447-449: the request arrives.
GqStart ==
    /\ variant = "graphql" /\ h.pc = "start"
    /\ LET st == GetAccessTokenReq(St)
       IN Apply(IF st.h.token = FwdToken THEN GqAfterToken(st) ELSE st)
    /\ UNCHANGED <<variant, route, req, cfg, tokenVars>>

\* server.js:325-329: the grant call settles; a failure propagates as the
\* axios error it is.
GqToken ==
    /\ variant = "graphql" /\ h.pc = "token"
    /\ \E ans \in TokenAnswers :
          LET st == Settle(St, ans)
          IN IF ans.status = 200
             THEN Apply(GqAfterToken([st EXCEPT !.h.token = SvcToken(1)]))
             ELSE Apply(CatchUpstream(st, ans))
    /\ UNCHANGED <<variant, route, req, cfg, tokenVars>>

\* server.js:415-420, 467-475: searchInteractions settles.
GqSearch ==
    /\ variant = "graphql" /\ h.pc = "search"
    /\ \E ans \in SearchAnswers("captures") :
          LET st == Settle(St, ans)
          IN IF ans.status # 200 THEN Apply(CatchUpstream(st, ans))
             ELSE IF Len(ans.items) = 0 THEN Apply(Respond(st, JsonOk(<<>>, TRUE)))
             ELSE Apply(GqIssueBatch([st EXCEPT !.h.interactions = ans.items,
                                                !.h.interactionIds = MapKeys(ans.items),
                                                !.h.i = 0]))
    /\ UNCHANGED <<variant, route, req, cfg, tokenVars>>

\* server.js:477-491: postCapturesQuery settles.
GqCap ==
    /\ variant = "graphql" /\ h.pc = "cap"
    /\ \E ans \in CaptureAnswers(PendingBatch) :
          LET st == Settle(St, ans)
          IN IF ans.status = 200 THEN Apply(GqAfterBatch(st, ans.items))
             ELSE Apply(CatchUpstream(st, ans))
    /\ UNCHANGED <<variant, route, req, cfg, tokenVars>>

----------------------------------------------------------------------------
\* Variant "tasks" (part_000), GET /api/captures/recent.

\* Mutant of resolveOrgId: the token's org id is preferred to ORG_ID.
resolveOrgIdTokenFirst(token) ==
    IF token.src # "none" /\ cfg.tokenOrg THEN "org-of-token"
    ELSE IF cfg.orgId THEN "ORG_ID" ELSE Null

\* resolveOrgId (part_000:120-126): ORG_ID, else the token's last "_" part
\* when it looks like an org id.
resolveOrgId(token) ==
    IF cfg.orgId THEN "ORG_ID"
    ELSE IF token.src = "none" THEN Null
    ELSE IF cfg.tokenOrg THEN "org-of-token" ELSE Null

\* chunkArray (part_000:128-132), from index i on.
RECURSIVE ChunkFrom(_, _, _)
ChunkFrom(arr, size, i) ==
    IF i < Len(arr) THEN <<Slice(arr, i, i + size)>> \o ChunkFrom(arr, size, i + size)
    ELSE <<>>
chunkArray(arr, size) == ChunkFrom(arr, size, 0)

\* `items.map(it => it.id).filter(Boolean)` (part_000:190-191)
TaskIds(items) ==
    LET ids == [k \in 1..Len(items) |-> items[k].id]
        Truthy(x) == ~Falsy(x)
    IN SelectSeq(ids, Truthy)

\* The `.map((c) => ...)` callback of part_000:244-259 (endTime and duration
\* are copied through and left out).
TkNormalize(c) ==
    [id |-> c.id, taskId |-> c.taskId, startTime |-> c.startTime,
     agentEmails |-> IF Falsy(c.agentEmail) THEN {} ELSE {ToLowerCase(c.agentEmail)},
     downloadUrl |-> Or(c.downloadUrl, Or(c.filesUrl, Null))]

\* part_000:261: `res.json({ items: normalized, count: normalized.length })`
TkFinish(st) ==
    Respond(st, JsonOk([k \in 1..Len(st.h.allCaptures) |-> TkNormalize(st.h.allCaptures[k])],
                       FALSE))

\* listCapturesChunked (part_000:197-207): the request of chunk number h.i.
TkIssueChunk(st) ==
    Issue(st, "cap", "captures/query",
          [ids |-> chunkArray(st.h.interactionIds, 10)[st.h.i + 1],
           orgId |-> resolveOrgId(st.h.token)])

\* part_000:229-235: after `await getAccessToken()`.
TkAfterToken(st) ==
    IF resolveOrgId(st.h.token) = Null THEN Respond(st, JsonError(500, "missing_org_id"))
    ELSE Issue(st, "search", "search",
               [email |-> req.agentEmail, orgId |-> resolveOrgId(st.h.token)])

\* part_000:217-228 and getAccessToken (part_000:96-110) up to its await.
TkStart ==
    /\ variant = "tasks" /\ h.pc = "start"
    /\ IF Falsy(req.agentEmail)
       THEN /\ Apply(Respond(St, JsonError(400, "missing_agent_email")))
            /\ UNCHANGED grantCalls
       ELSE IF CacheValid(tokenCache, clock)
       THEN /\ Apply(TkAfterToken([St EXCEPT !.h.token = SvcToken(tokenCache.access_token),
                                             !.h.now = clock]))
            /\ UNCHANGED grantCalls
       ELSE /\ Apply(Issue([St EXCEPT !.h.now = clock], "token", "oauth/token",
                           [grant_type |-> "client_credentials"]))
            /\ grantCalls' = grantCalls + 1
    /\ UNCHANGED <<variant, route, req, cfg, tokenCache, clock, grantSeq,
                   tpc, tnow, tret, tcalls, tcallGrants, grantResp>>

\* Mutant of TkToken: expires_at is written whether or not the grant
\* succeeded.
TkTokenStampsOnFailure ==
    /\ variant = "tasks" /\ h.pc = "token"
    /\ \E ans \in TokenAnswers :
          LET st == Settle(St, ans)
          IN IF ans.status = 200
             THEN /\ tokenCache' = [access_token |-> grantSeq + 1,
                                    expires_at |-> ExpiresAt(h.now, 0)]
                  /\ grantSeq' = grantSeq + 1
                  /\ Apply(TkAfterToken([st EXCEPT !.h.token = SvcToken(grantSeq + 1)]))
             ELSE /\ Apply(CatchUpstream(st, ans))
                  /\ tokenCache' = [tokenCache EXCEPT !.expires_at = ExpiresAt(h.now, 0)]
                  /\ UNCHANGED grantSeq
    /\ UNCHANGED <<variant, route, req, cfg, clock, grantCalls,
                   tpc, tnow, tret, tcalls, tcallGrants, grantResp>>

\* part_000:106-114: the grant call settles: the cache is written and the
\* handler goes on; a failure is thrown to the route's catch.
TkToken ==
    /\ variant = "tasks" /\ h.pc = "token"
    /\ \E ans \in TokenAnswers :
          LET st == Settle(St, ans)
          IN IF ans.status = 200
             THEN /\ tokenCache' = [access_token |-> grantSeq + 1,
                                    expires_at |-> ExpiresAt(h.now, 0)]
                  /\ grantSeq' = grantSeq + 1
                  /\ Apply(TkAfterToken([st EXCEPT !.h.token = SvcToken(grantSeq + 1)]))
             ELSE /\ Apply(CatchUpstream(st, ans))
                  /\ UNCHANGED <<tokenCache, grantSeq>>
    /\ UNCHANGED <<variant, route, req, cfg, clock, grantCalls,
                   tpc, tnow, tret, tcalls, tcallGrants, grantResp>>

\* `pageInfo { hasNextPage endCursor }` of the answer (part_000:178): a page
\* that is not full is the last one.
PageInfos(ans) ==
    IF ans.status = 200 /\ Len(ans.items) = MaxIds THEN BOOLEAN ELSE {FALSE}

\* part_000:185-191, 235-241: findRecentTaskIds settles.  The answer's
\* pageInfo is logged with the call; the code does not read it.
TkSearch ==
    /\ variant = "tasks" /\ h.pc = "search"
    /\ \E ans \in SearchAnswers("tasks") : \E more \in PageInfos(ans) :
          LET st == [Settle(St, ans) EXCEPT
                        !.calls[Len(calls)] = @ @@ [hasNextPage |-> more]]
              taskIds == TaskIds(ans.items)
          IN IF ans.status # 200 THEN Apply(CatchUpstream(st, ans))
             ELSE IF Len(taskIds) = 0 THEN Apply(Respond(st, JsonOk(<<>>, FALSE)))
             ELSE Apply(TkIssueChunk([st EXCEPT !.h.interactionIds = taskIds, !.h.i = 0]))
    /\ UNCHANGED <<variant, route, req, cfg, tokenVars>>

\* part_000:202-211, 241-261: one chunk's request settles.
TkCap ==
    /\ variant = "tasks" /\ h.pc = "cap"
    /\ \E ans \in CaptureAnswers(PendingBatch) :
          LET st == Settle(St, ans)
              st1 == [st EXCEPT !.h.allCaptures = @ \o ans.items, !.h.i = @ + 1]
          IN IF ans.status # 200 THEN Apply(CatchUpstream(st, ans))
             ELSE IF st1.h.i < Len(chunkArray(st1.h.interactionIds, 10))
             THEN Apply(TkIssueChunk(st1))
             ELSE Apply(TkFinish(st1))
    /\ UNCHANGED <<variant, route, req, cfg, tokenVars>>

----------------------------------------------------------------------------
\* One request to one variant of the service.
Variants == {"fallback", "graphql", "tasks"}
Routes(v) == IF v = "fallback" THEN {"captures", "interactions"} ELSE {"captures"}
ReqEmails(rt) == IF rt = "interactions" THEN {Undefined, " ", "a@b.com", "A@B.COM"}
                 ELSE {Undefined, "a@b.com"}
QueryLimits(rt) == IF rt = "interactions" THEN {Undefined} ELSE {Undefined, "1", "3"}
\* What the cache may hold when the request arrives: nothing, or a token that
\* is valid beyond the margin.
InitialCaches(v) ==
    IF v \in {"tasks", "cachedScan"}
    THEN {[access_token |-> NoToken, expires_at |-> 0],
          [access_token |-> 1, expires_at |-> DefaultExpiresIn]}
    ELSE {[access_token |-> NoToken, expires_at |-> 0]}

Init ==
    /\ variant \in Variants
    /\ route \in Routes(variant)
    /\ req \in [auth : BOOLEAN, agentEmail : ReqEmails(route), limit : QueryLimits(route)]
    /\ cfg \in [creds : BOOLEAN, orgId : BOOLEAN, tokenOrg : BOOLEAN]
    \* Settings a variant does not read are held at one value.
    /\ IF variant = "tasks" THEN cfg.creds /\ (cfg.orgId => cfg.tokenOrg)
       ELSE cfg.orgId /\ cfg.tokenOrg /\ (req.auth => cfg.creds)
    /\ h = StartH
    /\ calls = <<>>
    /\ response = NoResponse
    /\ tokenCache \in InitialCaches(variant)
    /\ clock = 0
    /\ grantCalls = 0
    /\ grantSeq = tokenCache.access_token
    /\ CallersIdle

Next ==
    \/ FbStart
    \/ FbToken
    \/ FbSearch
    \/ FbAltSearch
    \/ FbCap
    \/ FbCapAlt
    \/ IxSearch
    \/ IxAltSearch
    \/ IxRetry
    \/ GqStart
    \/ GqToken
    \/ GqSearch
    \/ GqCap
    \/ TkStart
    \/ TkToken
    \/ TkSearch
    \/ TkCap

Spec == Init /\ [][Next]_vars

\* The same with progress: the handler runs when it can and every awaited
\* upstream call eventually succeeds or fails.
SpecLive == Init /\ [][Next]_vars /\ WF_vars(Next)

----------------------------------------------------------------------------
\* The normalisation step on its own (part_002:301-334, server.js:493-526):
\* the handler stands after the batch loop with any interactions and any
\* accumulated captures, and answers.  The call log is not kept here.

\* Interactions by the shape of their times: whole, with a half second, none,
\* end before start, an end that is no date, a start only.
NormIx ==
    { IxRecord("X1", TStart, THalf, "+15550001", Undefined),
      IxRecord("X2", Undefined, Undefined, Undefined, Undefined),
      IxRecord("X3", TEnd, TStart, "+15550003", Undefined),
      IxRecord("X4", TStart, BadDate, "+15550004", Undefined),
      IxRecord(Undefined, TLate, Undefined, "+15550002", Undefined) }
\* One capture with a media link for each interaction, one of an interaction
\* that was not found, one without interactionId, one without a media link.
\* Between them the captures carry every kind of media link, several at
\* once with different values, and an empty string in front of a link.
NormCaptures ==
    { [BlankCapture EXCEPT !.captureId = "N1", !.interactionId = "X1",
                           !.url = "https://media/1",
                           !.playbackUrl = "https://media/1p",
                           !.linksDownload = "https://media/1d"],
      [BlankCapture EXCEPT !.captureId = "N2", !.interactionId = "X2",
                           !.createdAt = TLate, !.url = "",
                           !.playbackUrl = "https://media/2",
                           !.downloadUrl = "https://media/2d"],
      [BlankCapture EXCEPT !.captureId = "N3", !.interactionId = "X3",
                           !.downloadUrl = "https://media/3",
                           !.mediaFiles0Url = "https://media/3m"],
      [BlankCapture EXCEPT !.captureId = "N4", !.interactionId = "X4",
                           !.mediaFiles0Url = "https://media/4",
                           !.linksPlayback = "https://media/4p"],
      [BlankCapture EXCEPT !.captureId = "N5", !.interactionId = "X9",
                           !.createdAt = TStart, !.linksDownload = "https://media/5"],
      [BlankCapture EXCEPT !.id = "N6", !.linksPlayback = "https://media/6",
                           !.linksDownload = "https://media/6d"],
      [BlankCapture EXCEPT !.captureId = "N7", !.interactionId = "X1",
                           !.createdAt = TLate] }
NormLimits == {Undefined, "1", "3", "-1", "2000"}

NormInit ==
    /\ variant \in {"fallback", "graphql"}
    /\ route = "captures"
    /\ req \in [auth : {TRUE}, agentEmail : {"a@b.com"}, limit : NormLimits]
    /\ cfg = [creds |-> TRUE, orgId |-> TRUE, tokenOrg |-> TRUE]
    /\ \E ixs \in SeqsUpTo(NormIx, MaxIx) \ {<<>>}, caps \in SeqsUpTo(NormCaptures, MaxResp) :
          h = [StartH EXCEPT !.pc = "normalize", !.token = FwdToken,
                             !.interactions = ixs, !.interactionIds = MapKeys(ixs),
                             !.allCaptures = caps]
    /\ calls = <<>>
    /\ response = NoResponse
    /\ tokenCache = [access_token |-> NoToken, expires_at |-> 0]
    /\ clock = 0
    /\ grantCalls = 0
    /\ grantSeq = 0
    /\ CallersIdle

\* part_002:301-334
FbNormalize ==
    /\ variant = "fallback" /\ h.pc = "normalize"
    /\ Apply(FbFinish(St))
    /\ UNCHANGED <<variant, route, req, cfg, tokenVars>>

\* server.js:493-526
GqNormalize ==
    /\ variant = "graphql" /\ h.pc = "normalize"
    /\ Apply(GqFinish(St))
    /\ UNCHANGED <<variant, route, req, cfg, tokenVars>>

NormNext == FbNormalize \/ GqNormalize

SpecNormalize == NormInit /\ [][NormNext]_vars

----------------------------------------------------------------------------
\* The variants that read every capture of the tenant and filter by time and
\* agent themselves:
\*   "scan"        src/unnamed/part_001  (forwarded bearer or grant)
\*   "cachedScan"  src/server.js:1-268   (token cache)
\* Here the request also carries `hours`.

\* `new Date()` when the request is served, on the scale of DateMs.
NowMs == 5000000

\* A capture as these variants read it: the fields of BlankCapture with
\* agent.email and a participant's email.
ScanCapture(id, when, link, agentEmail, agentDotEmail, participantEmail) ==
    [BlankCapture EXCEPT !.captureId = id, !.id = id, !.createdAt = when,
                         !.startTime = when, !.url = link, !.downloadUrl = link,
                         !.agentEmail = agentEmail]
    @@ [agentDotEmail |-> agentDotEmail, participantEmail |-> participantEmail]
\* Captures of the agent (in another case, or as a participant), of another
\* agent, without any agent email, an older one, one without a media link.
ScanCaptures ==
    { ScanCapture("S1", TLate, "https://media/1", "A@B.COM", Undefined, Undefined),
      ScanCapture("S2", TLate, "https://media/2", Undefined, "Other@B.com", Undefined),
      ScanCapture("S3", TLate, "https://media/3", Undefined, Undefined, Undefined),
      ScanCapture("S4", TLate, "https://media/4", "other@b.com", Undefined, "a@b.com"),
      ScanCapture("S5", TStart, "https://media/5", Undefined, Undefined, Undefined),
      ScanCapture("S6", TLate, Undefined, Undefined, Undefined, Undefined) }
\* The capture query's answers; NoItemsArray is a 200 whose body has no
\* items array.
NoItemsArray == [status |-> 200, items |-> <<>>, noItems |-> TRUE]
IsArrayItems(ans) == "noItems" \notin DOMAIN ans
ScanAnswers ==
    {Answer(200, items) : items \in SeqsUpTo(ScanCaptures, MaxResp)}
    \cup {NoItemsArray} \cup ErrorAnswers

\* pickAgentEmails (part_001:159-170, server.js:119-134): the lower-cased
\* agent emails found in the capture.
pickAgentEmails(c) ==
    {ToLowerCase(x) : x \in {c.agentEmail, c.agentDotEmail, c.participantEmail} \ {Undefined}}

\* ---- part_001 ----
\* `(req.query.agentEmail || "").toString().trim().toLowerCase()`
ScAgentEmail == ToLowerCase(Trim(Or(req.agentEmail, "")))
\* `Math.max(1, Number(req.query.hours || 24))`
ScHours == Max(1, IF Falsy(req.hours) THEN 24 ELSE NumberOf(req.hours))
ScFromMs == NowMs - ScHours * 60 * 60 * 1000
\* pickCreated (part_001:148)
pickCreated(c) == Or(c.createdAt, Or(c.startTime, Null))
\* withinWindow (part_001:172-177)
withinWindow(c) ==
    IF Falsy(pickCreated(c)) THEN FALSE
    ELSE DateMs(pickCreated(c)) >= ScFromMs /\ DateMs(pickCreated(c)) <= NowMs
\* agentMatches (part_001:179-184)
agentMatches(c) ==
    IF ScAgentEmail = "" THEN TRUE
    ELSE IF pickAgentEmails(c) = {} THEN TRUE
    ELSE ScAgentEmail \in pickAgentEmails(c)
\* The `.map((c) => ...)` callback of part_001:189-202.
ScNormalize(c) ==
    [captureId |-> Or(c.captureId, Or(c.id, Null)),
     interactionId |-> Or(c.interactionId, Or(c.taskId, Null)),
     taskId |-> Or(c.taskId, Null),
     createdAt |-> pickCreated(c),
     url |-> pickUrl(c)]
\* part_001:141-206: filter, filter, map, filter, sort (a body without an
\* array counts as no captures).
ScItems(captures) ==
    LET kept == SelectSeq(SelectSeq(captures, withinWindow), agentMatches)
    IN SortByCreatedAt(SelectSeq([k \in 1..Len(kept) |-> ScNormalize(kept[k])], HasUrl))

\* part_001:127-138
ScIssueScan(st) == Issue(st, "scan", "captures/query", [taskIds |-> <<>>])

\* part_001:119-121 and getAccessToken (part_001:45-60) up to its await.
ScStart ==
    /\ variant = "scan" /\ h.pc = "start"
    /\ LET st == GetAccessTokenReq(St)
       IN Apply(IF st.h.token = FwdToken THEN ScIssueScan(st) ELSE st)
    /\ UNCHANGED <<variant, route, req, cfg, tokenVars>>

\* part_001:57-61: the grant call settles.
ScToken ==
    /\ variant = "scan" /\ h.pc = "token"
    /\ \E ans \in TokenAnswers :
          LET st == Settle(St, ans)
          IN IF ans.status = 200
             THEN Apply(ScIssueScan([st EXCEPT !.h.token = SvcToken(1)]))
             ELSE Apply(CatchUpstream(st, ans))
    /\ UNCHANGED <<variant, route, req, cfg, tokenVars>>

\* part_001:138-216: the capture query settles.
ScScan ==
    /\ variant = "scan" /\ h.pc = "scan"
    /\ \E ans \in ScanAnswers :
          LET st == Settle(St, ans)
          IN IF ans.status = 200 THEN Apply(Respond(st, JsonOk(ScItems(ans.items), TRUE)))
             ELSE Apply(CatchUpstream(st, ans))
    /\ UNCHANGED <<variant, route, req, cfg, tokenVars>>

\* ---- server.js:1-268 ----
\* `hours ? parseInt(hours, 10) : defaultDaysBack * 24`
CsWindowHours == IF Falsy(req.hours) THEN 7 * 24 ELSE NumberOf(req.hours)
CsSince == NowMs - CsWindowHours * 60 * 60 * 1000
\* server.js:169-172: `new Date(c.startTime || c.createdTime || 0) >= since`
CsRecent(c) == DateMs(Or(c.startTime, Null)) >= CsSince
\* server.js:175
CsAgentOk(c) ==
    Falsy(req.agentEmail) \/ ToLowerCase(StringOf(req.agentEmail)) \in pickAgentEmails(c)
\* pickUrl of server.js:136-145
CsPickUrl(c) == Or(c.downloadUrl, Or(c.filesUrl, Null))
\* The `.map((c) => ...)` callback of server.js:176-183.
CsNormalize(c) ==
    [id |-> c.id, startTime |-> c.startTime, agentEmails |-> pickAgentEmails(c),
     downloadUrl |-> CsPickUrl(c)]
\* server.js:169-183
CsItems(captures) ==
    LET kept == SelectSeq(SelectSeq(captures, CsRecent), CsAgentOk)
    IN [k \in 1..Len(kept) |-> CsNormalize(kept[k])]

\* server.js:157-163
CsIssueScan(st) == Issue(st, "scan", "captures/query", [query |-> "{}"])

\* server.js:150-156 and getAccessToken (server.js:95-109) up to its await.
CsStart ==
    /\ variant = "cachedScan" /\ h.pc = "start"
    /\ IF CacheValid(tokenCache, clock)
       THEN /\ Apply(CsIssueScan([St EXCEPT !.h.token = SvcToken(tokenCache.access_token),
                                            !.h.now = clock]))
            /\ UNCHANGED grantCalls
       ELSE /\ Apply(Issue([St EXCEPT !.h.now = clock], "token", "oauth/token",
                           [grant_type |-> "client_credentials"]))
            /\ grantCalls' = grantCalls + 1
    /\ UNCHANGED <<variant, route, req, cfg, tokenCache, clock, grantSeq,
                   tpc, tnow, tret, tcalls, tcallGrants, grantResp>>

\* server.js:105-113: the grant call settles.
CsToken ==
    /\ variant = "cachedScan" /\ h.pc = "token"
    /\ \E ans \in TokenAnswers :
          LET st == Settle(St, ans)
          IN IF ans.status = 200
             THEN /\ tokenCache' = [access_token |-> grantSeq + 1,
                                    expires_at |-> ExpiresAt(h.now, 0)]
                  /\ grantSeq' = grantSeq + 1
                  /\ Apply(CsIssueScan([st EXCEPT !.h.token = SvcToken(grantSeq + 1)]))
             ELSE /\ Apply(CatchUpstream(st, ans))
                  /\ UNCHANGED <<tokenCache, grantSeq>>
    /\ UNCHANGED <<variant, route, req, cfg, clock, grantCalls,
                   tpc, tnow, tret, tcalls, tcallGrants, grantResp>>

\* server.js:159-198: the capture query settles.
CsScan ==
    /\ variant = "cachedScan" /\ h.pc = "scan"
    /\ \E ans \in ScanAnswers :
          LET st == Settle(St, ans)
          IN IF ans.status # 200 THEN Apply(CatchUpstream(st, ans))
             ELSE IF ~IsArrayItems(ans)
             THEN Apply(Respond(st, JsonError(502, "invalid_response")))
             ELSE Apply(Respond(st, JsonOk(CsItems(ans.items), FALSE)))
    /\ UNCHANGED <<variant, route, req, cfg, tokenVars>>

ScanInit ==
    /\ variant \in {"scan", "cachedScan"}
    /\ route = "captures"
    /\ req \in [auth : BOOLEAN, agentEmail : {Undefined, "a@b.com", "A@B.COM"},
                 limit : {Undefined}, hours : {Undefined, "1"}]
    /\ cfg \in [creds : BOOLEAN, orgId : {TRUE}, tokenOrg : {TRUE}]
    \* Settings a variant does not read are held at one value.
    /\ IF variant = "cachedScan" THEN cfg.creds /\ ~req.auth ELSE req.auth => cfg.creds
    /\ h = StartH
    /\ calls = <<>>
    /\ response = NoResponse
    /\ tokenCache \in InitialCaches(variant)
    /\ clock = 0
    /\ grantCalls = 0
    /\ grantSeq = tokenCache.access_token
    /\ CallersIdle

ScanNext ==
    \/ ScStart
    \/ ScToken
    \/ ScScan
    \/ CsStart
    \/ CsToken
    \/ CsScan

SpecScan == ScanInit /\ [][ScanNext]_vars

----------------------------------------------------------------------------
\* GET /api/capture/:id/stream (part_000:280-297, server.js:204-221; the two
\* are the same code), in the variants "tasks" and "cachedScan".  The request
\* carries `id`; the response also has its Content-Type, the number of chunks
\* relayed to the caller, and whether it has been ended.

MaxChunks == 2

\* encodeURIComponent on the ids of the model.
EncodeURIComponent(x) == IF x = "a/b" THEN "a%2Fb" ELSE x
\* The Content-Type the download may answer with; Undefined: none.
ContentTypes == {Undefined, "audio/wav"}
\* The download's answers: the headers of a stream, or an error.
StreamAnswers ==
    {Answer(200, <<>>) @@ [contentType |-> t] : t \in ContentTypes}
    \cup {a @@ [contentType |-> Undefined] : a \in ErrorAnswers}
NoStreamResponse ==
    NoResponse @@ [contentType |-> Undefined, relayed |-> 0, ended |-> FALSE]
\* `res.status(e.response?.status || 500).json({ error: "stream_failed", ... })`
StreamFailed(status) ==
    JsonError(PickStatus(status), "stream_failed")
    @@ [contentType |-> "application/json", relayed |-> 0, ended |-> TRUE]

\* part_000:283-288: `axios.get(url, { responseType: "stream", timeout: 60000 })`
StIssueDownload(st) ==
    Issue(st, "download", <<"v1", "captures", EncodeURIComponent(req.id), "download">>,
          [responseType |-> "stream"])

\* part_000:281-282 and getAccessToken (part_000:96-110) up to its await.
StStart ==
    /\ route = "stream" /\ h.pc = "start"
    /\ IF CacheValid(tokenCache, clock)
       THEN /\ Apply(StIssueDownload([St EXCEPT !.h.token = SvcToken(tokenCache.access_token),
                                                !.h.now = clock]))
            /\ UNCHANGED grantCalls
       ELSE /\ Apply(Issue([St EXCEPT !.h.now = clock], "token", "oauth/token",
                           [grant_type |-> "client_credentials"]))
            /\ grantCalls' = grantCalls + 1
    /\ UNCHANGED <<variant, route, req, cfg, tokenCache, clock, grantSeq,
                   tpc, tnow, tret, tcalls, tcallGrants, grantResp>>

\* part_000:106-114, 291-295: the grant call settles.
StToken ==
    /\ route = "stream" /\ h.pc = "token"
    /\ \E ans \in TokenAnswers :
          LET st == Settle(St, ans)
          IN IF ans.status = 200
             THEN /\ tokenCache' = [access_token |-> grantSeq + 1,
                                    expires_at |-> ExpiresAt(h.now, 0)]
                  /\ grantSeq' = grantSeq + 1
                  /\ Apply(StIssueDownload([st EXCEPT !.h.token = SvcToken(grantSeq + 1)]))
             ELSE /\ Apply(Respond(st, StreamFailed(ans.status)))
                  /\ UNCHANGED <<tokenCache, grantSeq>>
    /\ UNCHANGED <<variant, route, req, cfg, clock, grantCalls,
                   tpc, tnow, tret, tcalls, tcallGrants, grantResp>>

\* part_000:284-295: the download answers its headers, or fails before the
\* first byte.  On success the Content-Type is set and `r.data.pipe(res)`
\* starts the relay; the handler's try block is left.
StDownload ==
    /\ route = "stream" /\ h.pc = "download"
    /\ \E ans \in StreamAnswers :
          LET st == Settle(St, ans)
          IN IF ans.status = 200
             THEN Apply([st EXCEPT !.h.pc = "relay",
                                   !.response = [NoStreamResponse EXCEPT
                                       !.status = 200,
                                       !.contentType = Or(ans.contentType, "audio/mpeg")]])
             ELSE Apply(Respond(st, StreamFailed(ans.status)))
    /\ UNCHANGED <<variant, route, req, cfg, tokenVars>>

\* part_000:290: the pipe.  A chunk of the upstream is written to the caller;
\* the upstream ends and pipe ends the response; or the upstream fails (reset,
\* timeout).  The code has no 'error' listener on r.data and the catch block
\* is no longer in reach: either nothing happens and the response is left
\* open ("stalled"), or the unhandled 'error' event ends the process
\* ("crashed").  In both the caller gets no status and no end.
StRelay ==
    /\ route = "stream" /\ h.pc = "relay"
    /\ \/ /\ response.relayed < MaxChunks
          /\ Apply([St EXCEPT !.response.relayed = @ + 1])
       \/ Apply([St EXCEPT !.h.pc = "done", !.response.ended = TRUE])
       \/ \E outcome \in {"stalled", "crashed"} : Apply([St EXCEPT !.h.pc = outcome])
    /\ UNCHANGED <<variant, route, req, cfg, tokenVars>>

StreamInit ==
    /\ variant \in {"tasks", "cachedScan"}
    /\ route = "stream"
    /\ req \in [auth : {FALSE}, agentEmail : {Undefined}, limit : {Undefined},
                 id : {"C1", "a/b"}]
    /\ cfg = [creds |-> TRUE, orgId |-> TRUE, tokenOrg |-> TRUE]
    /\ h = StartH
    /\ calls = <<>>
    /\ response = NoStreamResponse
    /\ tokenCache \in InitialCaches(variant)
    /\ clock = 0
    /\ grantCalls = 0
    /\ grantSeq = tokenCache.access_token
    /\ CallersIdle

StreamNext ==
    \/ StStart
    \/ StToken
    \/ StDownload
    \/ StRelay

SpecStream == StreamInit /\ [][StreamNext]_vars

\* The same with progress: the handler runs when it can, and every upstream
\* call that is awaited, and every relay under way, eventually settles one
\* way or the other (the timeouts of part_000:106-110 and 286-288).
SpecStreamLive == StreamInit /\ [][StreamNext]_vars /\ WF_vars(StreamNext)

----------------------------------------------------------------------------
\* Variant "rest" (server.js:539-665), GET /api/recordings.  The request
\* carries `interactionId`; the response's JSON body is kept in `body`.

RecordingRecord(recordingId, id, url, downloadUrl, startTime, createdAt) ==
    [recordingId |-> recordingId, id |-> id, url |-> url, playbackUrl |-> Undefined,
     downloadUrl |-> downloadUrl, startTime |-> startTime, createdAt |-> createdAt]
\* Recordings named by recordingId or by id, with the link and the time under
\* either of their names, and one with no field at all.
RecordingRecords ==
    { RecordingRecord("R1", "r-1", "https://rec/1", Undefined, TStart, TLate),
      RecordingRecord(Undefined, "R2", Undefined, "https://rec/2", Undefined, TEnd),
      RecordingRecord(Undefined, Undefined, Undefined, Undefined, Undefined, Undefined) }
\* The body of the recordings answer: { items: [...] }, a bare array, or an
\* object without items.
RecordingAnswers ==
    {Answer(200, items) @@ [shape |-> sh] :
        items \in SeqsUpTo(RecordingRecords, MaxResp), sh \in {"items", "array"}}
    \cup {Answer(200, <<>>) @@ [shape |-> "object"]}
    \cup {a @@ [shape |-> "error"] : a \in ErrorAnswers}

NoBody == [kind |-> "none"]
NoRecordingsResponse == NoResponse @@ [body |-> NoBody]
\* `normalize` of server.js:640-644
NormalizeRecording(r) ==
    [kind |-> "recording",
     recordingId |-> Or(r.recordingId, r.id),
     url |-> Or(r.url, Or(r.playbackUrl, r.downloadUrl)),
     startTime |-> Or(r.startTime, r.createdAt)]
\* `res.status(status).json({ error: msg, ... })` of server.js:650-658
RcError(status, msg) == JsonError(status, msg) @@ [body |-> NoBody]
\* `res.json(body)`
RcOk(body) == JsonOk(<<>>, FALSE) @@ [body |-> body]

\* server.js:633-639: after `await getAccessToken(req)`.
RcAfterToken(st) ==
    IF Falsy(req.interactionId)
    THEN Respond(st, RcError(400, "interactionId is required"))
    ELSE Issue(st, "recordings", "v1/recordings",
               [interactionId |-> EncodeURIComponent(req.interactionId),
                agentEmail |-> IF Falsy(req.agentEmail) THEN Undefined
                               ELSE EncodeURIComponent(req.agentEmail)])

\* server.js:630-632 and getAccessToken (server.js:559-573) up to its await.
RcStart ==
    /\ variant = "rest" /\ route = "recordings" /\ h.pc = "start"
    /\ IF req.auth THEN Apply(RcAfterToken([St EXCEPT !.h.token = FwdToken]))
       ELSE IF ~cfg.creds THEN Apply(Respond(St, RcError(500, "Service credentials missing")))
       ELSE Apply(Issue(St, "token", "oauth/token", [grant_type |-> "client_credentials"]))
    /\ UNCHANGED <<variant, route, req, cfg, tokenVars>>

\* server.js:574-581, 649-658: the grant call settles.
RcToken ==
    /\ variant = "rest" /\ route = "recordings" /\ h.pc = "token"
    /\ \E ans \in TokenAnswers :
          LET st == Settle(St, ans)
          IN IF ans.status = 200
             THEN Apply(RcAfterToken([st EXCEPT !.h.token = SvcToken(1)]))
             ELSE Apply(Respond(st, RcError(PickStatus(ans.status), "upstream error")))
    /\ UNCHANGED <<variant, route, req, cfg, tokenVars>>

\* server.js:639-658: the recordings call settles.
RcRecordings ==
    /\ variant = "rest" /\ route = "recordings" /\ h.pc = "recordings"
    /\ \E ans \in RecordingAnswers :
          LET st == Settle(St, ans)
          IN IF ans.status # 200
             THEN Apply(Respond(st, RcError(PickStatus(ans.status), "upstream error")))
             ELSE IF ans.shape \in {"items", "array"} /\ Len(ans.items) > 0
             THEN Apply(Respond(st, RcOk(NormalizeRecording(ans.items[1]))))
             ELSE Apply(Respond(st, RcOk([kind |-> "urls", urls |-> <<>>])))
    /\ UNCHANGED <<variant, route, req, cfg, tokenVars>>

RecordingsInit ==
    /\ variant = "rest"
    /\ route = "recordings"
    /\ req \in [auth : BOOLEAN, agentEmail : {Undefined, "a@b.com"}, limit : {Undefined},
                 interactionId : {Undefined, "X1", "a/b"}]
    /\ cfg \in [creds : BOOLEAN, orgId : {TRUE}, tokenOrg : {TRUE}]
    \* Settings a request does not read are held at one value.
    /\ req.auth => cfg.creds
    /\ h = StartH
    /\ calls = <<>>
    /\ response = NoRecordingsResponse
    /\ tokenCache = [access_token |-> NoToken, expires_at |-> 0]
    /\ clock = 0
    /\ grantCalls = 0
    /\ grantSeq = 0
    /\ CallersIdle

RecordingsNext ==
    \/ RcStart
    \/ RcToken
    \/ RcRecordings

SpecRecordings == RecordingsInit /\ [][RecordingsNext]_vars

----------------------------------------------------------------------------
\* The batch loop of part_002:285-299 as a function of the id list, against
\* an upstream whose capture store is fixed: the same request served with the
\* ids in different orders.  Every capture query answers 200 here.

\* Eleven ids: two batches.
PermBase == [k \in 1..(MAX_IDS_PER_CAPTURE_QUERY + 1) |-> ToString(k)]
\* The orders the search may answer the ids in: as they are, reversed, and
\* with the first and the last exchanged.
PermOrders ==
    LET n == Len(PermBase)
    IN { PermBase,
         [k \in 1..n |-> PermBase[n + 1 - k]],
         [k \in 1..n |-> IF k = 1 THEN PermBase[n] ELSE IF k = n THEN PermBase[1]
                         ELSE PermBase[k]] }
\* The interactions of an id list.
PermIx(ids) ==
    [k \in 1..Len(ids) |-> IxRecord(ids[k], Undefined, Undefined, Undefined, Undefined)]
\* The captures the store may hold for the first and for the last id: an
\* older and a newer one, two of the same instant, one without a media link.
PermCaptures(id) ==
    IF id = PermBase[1]
    THEN { [BlankCapture EXCEPT !.captureId = "A", !.interactionId = id,
                                !.createdAt = TStart, !.url = "https://media/a"],
           [BlankCapture EXCEPT !.captureId = "A0", !.interactionId = id,
                                !.createdAt = TLate] }
    ELSE { [BlankCapture EXCEPT !.captureId = "B", !.interactionId = id,
                                !.createdAt = TLate, !.url = "https://media/b"],
           [BlankCapture EXCEPT !.captureId = "B2", !.interactionId = id,
                                !.createdAt = TStart, !.url = "https://media/b2"] }
\* As many captures of the first id as there are ids, the first of them
\* without a media link.
PermFull ==
    [k \in 1..Len(PermBase) |->
        [BlankCapture EXCEPT !.captureId = "F" \o ToString(k),
                             !.interactionId = PermBase[1], !.createdAt = TStart,
                             !.url = IF k = 1 THEN Undefined ELSE "https://media/f"]]
PermStores ==
    {[id \in {PermBase[1], PermBase[Len(PermBase)]} |-> IF id = PermBase[1] THEN a ELSE b] :
        a \in SeqsUpTo(PermCaptures(PermBase[1]), MaxResp) \cup {PermFull},
        b \in SeqsUpTo(PermCaptures(PermBase[Len(PermBase)]), MaxResp)}

\* What the capture store answers to a batch: the captures of the batch's
\* ids, in the store's own order.
RECURSIVE StoreAnswerFrom(_, _, _)
StoreAnswerFrom(store, batch, k) ==
    IF k > Len(PermBase) THEN <<>>
    ELSE (IF PermBase[k] \in DOMAIN store /\ \E x \in 1..Len(batch) : batch[x] = PermBase[k]
          THEN store[PermBase[k]] ELSE <<>>)
         \o StoreAnswerFrom(store, batch, k + 1)
StoreAnswer(store, batch) == StoreAnswerFrom(store, batch, 1)

\* part_002:285-299: `for (let i = 0; i < interactionIds.length; i += 10)`,
\* pushing each batch's items and breaking once the limit is reached.
RECURSIVE FbLoop(_, _, _, _, _)
FbLoop(ids, i, acc, store, limit) ==
    IF i < Len(ids)
    THEN LET batch == Slice(ids, i, i + MAX_IDS_PER_CAPTURE_QUERY)
             acc1 == acc \o StoreAnswer(store, batch)
         IN IF Len(acc1) >= limit THEN acc1
            ELSE FbLoop(ids, i + MAX_IDS_PER_CAPTURE_QUERY, acc1, store, limit)
    ELSE acc

\* The value of the loop variable `i` when the loop of FbLoop is left: the
\* start of the batch it broke at, or the first value past the ids.
RECURSIVE FbLoopExit(_, _, _, _, _)
FbLoopExit(ids, i, acc, store, limit) ==
    IF i < Len(ids)
    THEN LET batch == Slice(ids, i, i + MAX_IDS_PER_CAPTURE_QUERY)
             acc1 == acc \o StoreAnswer(store, batch)
         IN IF Len(acc1) >= limit THEN i
            ELSE FbLoopExit(ids, i + MAX_IDS_PER_CAPTURE_QUERY, acc1, store, limit)
    ELSE i

\* part_002:253-334 with the search answered: the loop, then the response.
PmRun ==
    /\ variant = "fallback" /\ route = "captures" /\ h.pc = "batches"
    /\ Apply(FbFinish([St EXCEPT !.h.allCaptures =
                          FbLoop(h.interactionIds, 0, <<>>, h.upstream, Limit),
                                 !.h.i =
                          FbLoopExit(h.interactionIds, 0, <<>>, h.upstream, Limit)]))
    /\ UNCHANGED <<variant, route, req, cfg, tokenVars>>

PermInit ==
    /\ variant = "fallback"
    /\ route = "captures"
    /\ req \in [auth : {TRUE}, agentEmail : {"a@b.com"},
               limit : {Undefined, "1", "3", "11"}]
    /\ cfg = [creds |-> TRUE, orgId |-> TRUE, tokenOrg |-> TRUE]
    /\ \E ids \in PermOrders, store \in PermStores :
          h = [StartH EXCEPT !.pc = "batches", !.token = FwdToken,
                             !.interactions = PermIx(ids), !.interactionIds = ids]
              @@ [upstream |-> store]
    /\ calls = <<>>
    /\ response = NoResponse
    /\ tokenCache = [access_token |-> NoToken, expires_at |-> 0]
    /\ clock = 0
    /\ grantCalls = 0
    /\ grantSeq = 0
    /\ CallersIdle

PermNext == PmRun

SpecPermute == PermInit /\ [][PermNext]_vars

----------------------------------------------------------------------------
\* C3: a getAccessToken call made while the cache holds a token with
\* expires_at > now + 60 returns that cached token at once, issues no grant
\* call and leaves the cache alone; so two successive calls made while the
\* same cached token is valid return the identical token (the second returns
\* what the first returned) with no grant call between them.
C3_CachedTokenReused ==
    [][\A p \in Callers :
          (/\ tcalls'[p] = tcalls[p] + 1
           /\ tokenCache.access_token # NoToken
           /\ tokenCache.expires_at > clock + 60)
          => /\ tret'[p] = tokenCache.access_token
             /\ (tret[p] = tokenCache.access_token => tret'[p] = tret[p])
             /\ tpc'[p] = "idle"
             /\ grantCalls' = grantCalls
             /\ tokenCache' = tokenCache]_vars

\* Caller 1 called twice, the only grant call ever issued was its first
\* call's, time has passed, and its second call returned the cached token.
C3_Witness ==
    /\ tcalls[1] = 2 /\ tcalls[2] = 0
    /\ grantCalls = 1
    /\ clock > 0
    /\ tpc[1] = "idle"
    /\ tret[1] = tokenCache.access_token
    /\ tokenCache.access_token # NoToken
    /\ tokenCache.expires_at < DefaultExpiresIn

\* C4: a getAccessToken call made when no token is cached or the cached one
\* is within the margin of its expiry issues exactly one grant call and
\* waits for it; when the grant succeeds the call writes the granted token
\* and now + (expires_in || 3600) to the cache and returns that token,
\* having issued that one grant call and no other.
C4_ExpiredCallGrantsOnce ==
    [][\A p \in Callers :
          /\ (/\ tcalls'[p] = tcalls[p] + 1
              /\ (tokenCache.access_token = NoToken \/ tokenCache.expires_at <= clock + 60))
             => /\ grantCalls' = grantCalls + 1
                /\ tcallGrants'[p] = 1
                /\ tpc'[p] = "grant"
          /\ (tpc[p] = "grant" /\ tpc'[p] = "grant")
             => tcallGrants'[p] = tcallGrants[p]
          /\ (tpc[p] = "grant" /\ tpc'[p] = "idle" /\ grantResp[p].status = 200)
             => /\ tcallGrants[p] = 1 /\ tcallGrants'[p] = 1
                /\ grantCalls' = grantCalls
                /\ tokenCache'.access_token = grantResp[p].access_token
                /\ tokenCache'.expires_at =
                      tnow[p] + (IF grantResp[p].expires_in = 0 THEN 3600
                                 ELSE grantResp[p].expires_in)
                /\ tret'[p] = grantResp[p].access_token]_vars

\* Caller 1's second call came after its first token had expired: it issued
\* the second grant call, and the cache and the return value hold the second
\* granted token.
C4_Witness ==
    /\ tcalls[1] = 2 /\ tcalls[2] = 0
    /\ grantCalls = 2 /\ grantSeq = 2
    /\ tpc[1] = "idle"
    /\ tcallGrants[1] = 1
    /\ tret[1] = 2
    /\ tokenCache.access_token = 2
    /\ tokenCache.expires_at = tnow[1] + DefaultExpiresIn
    /\ tnow[1] > 0

----------------------------------------------------------------------------
\* The capture calls of the log, and what they had accumulated.
IsChunkCall(c) == c.step = "cap"
ChunkCalls == SelectSeq(calls, IsChunkCall)
RECURSIVE ConcatIds(_)
ConcatIds(cs) == IF cs = <<>> THEN <<>> ELSE Head(cs).payload.ids \o ConcatIds(Tail(cs))
\* The capture records received before call number k was issued.
RECURSIVE ReceivedBefore(_)
ReceivedBefore(k) ==
    IF k <= 1 THEN 0
    ELSE ReceivedBefore(k - 1)
         + (IF calls[k - 1].step \in {"cap", "capAlt"} THEN Len(calls[k - 1].items) ELSE 0)
\* The media link of an item: `url`, and `downloadUrl` in the tasks variant.
MediaUrl(item) == IF "url" \in DOMAIN item THEN item.url ELSE item.downloadUrl

\* C1: every item of a success response of GET /api/captures/recent has a
\* non-null media link.
C1_NoDeadLinks ==
    (route = "captures" /\ response.status = 200)
    => \A k \in 1..Len(response.items) : ~Falsy(MediaUrl(response.items[k]))

\* C2: a GET /api/captures/recent request without agentEmail is answered 400
\* "agentEmail is required" and no upstream call was issued for it.  (Stated
\* for a service whose credentials are configured, and for the handlers whose
\* validation message is the claim's; part_000 validates before any call but
\* answers "missing_agent_email".)
C2_ValidationBeforeUpstream ==
    (/\ route = "captures" /\ variant # "tasks" /\ cfg.creds
     /\ Falsy(req.agentEmail) /\ h.pc # "start")
    => /\ h.pc = "done"
       /\ response.status = 400
       /\ response.error = "agentEmail is required"
       /\ calls = <<>>

\* C5: in part_002, when the primary interaction search answers 404, the
\* next call goes to the analytics search endpoint with the payload of the
\* primary call, it is the only call to that endpoint, and what it answers
\* is the search result (the interactions of the captures route, the items
\* of the interactions route).
C5_SecondarySearchOn404 ==
    variant = "fallback" =>
    \A k \in 1..Len(calls) :
       (calls[k].step = "search" /\ calls[k].settled /\ calls[k].status = 404)
       => /\ Len(calls) > k
          /\ calls[k + 1].ep = "analytics/interactions/search"
          /\ calls[k + 1].payload = calls[k].payload
          /\ Cardinality({j \in 1..Len(calls) :
                            calls[j].ep = "analytics/interactions/search"}) = 1
          /\ (calls[k + 1].settled /\ calls[k + 1].status = 200)
             => IF route = "interactions"
                THEN response.status = 200 /\ response.items = calls[k + 1].items
                ELSE IF calls[k + 1].items = <<>>
                THEN response.status = 200 /\ response.items = <<>> /\ Len(calls) = k + 1
                ELSE h.interactions = calls[k + 1].items

\* The captures route fell back to the analytics search, which answered
\* interactions, and the request went on with them to a success response.
C5_Witness ==
    /\ variant = "fallback" /\ route = "captures"
    /\ Len(calls) >= 3
    /\ \E k \in 1..2 :
          /\ calls[k].step = "search" /\ calls[k].status = 404
          /\ calls[k + 1].step = "altSearch" /\ calls[k + 1].status = 200
          /\ Len(calls[k + 1].items) = 2
          /\ h.interactions = calls[k + 1].items
    /\ response.status = 200 /\ Len(response.items) > 0

\* C6: in GET /api/interactions, when the primary search answers 400, the
\* next call is one retry on the same endpoint whose filters are those of the
\* primary call without the agentEmail filter (limit, sort and fields kept),
\* and the response holds, in order, exactly the retried items whose
\* agentEmail equals the requested one ignoring case.
C6_RetryWithoutAgentFilter ==
    (variant = "fallback" /\ route = "interactions") =>
    \A k \in 1..Len(calls) :
       (calls[k].step = "search" /\ calls[k].settled /\ calls[k].status = 400)
       => LET NotAgentFilter(f) == f.field # "agentEmail"
              SameEmail(x) == /\ x.agentEmail # Undefined
                              /\ ToLowerCase(x.agentEmail) = ToLowerCase(Trim(req.agentEmail))
          IN /\ Len(calls) = k + 1
             /\ calls[k + 1].step = "retry"
             /\ calls[k + 1].ep = calls[k].ep
             /\ calls[k + 1].payload.filters
                   = SelectSeq(calls[k].payload.filters, NotAgentFilter)
             /\ Len(calls[k + 1].payload.filters) = Len(calls[k].payload.filters) - 1
             /\ calls[k + 1].payload.limit = calls[k].payload.limit
             /\ calls[k + 1].payload.sort = calls[k].payload.sort
             /\ calls[k + 1].payload.fields = calls[k].payload.fields
             /\ (calls[k + 1].settled /\ calls[k + 1].status = 200)
                => /\ response.status = 200
                   /\ response.items = SelectSeq(calls[k + 1].items, SameEmail)

\* The retry answered an item of the agent in another case and an item of
\* another agent; the response holds the first only.
C6_Witness ==
    /\ variant = "fallback" /\ route = "interactions" /\ h.pc = "done"
    /\ req.agentEmail = "a@b.com"
    /\ Len(calls) >= 2
    /\ calls[Len(calls)].step = "retry" /\ calls[Len(calls)].status = 200
    /\ Len(calls[Len(calls)].items) = 2
    /\ calls[Len(calls)].items[1].agentEmail = "A@B.COM"
    /\ calls[Len(calls)].items[2].agentEmail = "other@b.com"
    /\ response.status = 200
    /\ Len(response.items) = 1
    /\ response.items[1].agentEmail = "A@B.COM"

\* C7: in GET /api/captures/recent, a 404 or 400 answered to the interaction
\* search or to a capture query is followed by a fallback call; it never ends
\* the request with a failure response.  (Stated for part_002, the variant
\* that has fallbacks.)
C7_FallbackNeverFailure ==
    (route = "captures" /\ variant = "fallback") =>
    \A k \in 1..Len(calls) :
       (calls[k].step \in {"search", "cap"} /\ calls[k].settled
          /\ calls[k].status \in {404, 400})
       => /\ Len(calls) > k
          /\ ~(h.pc = "done" /\ response.status = calls[k].status)

\* C8: the primary capture calls carry consecutive batches of at most 10 ids,
\* batch j being ids 10(j-1)+1..10j, which together are a prefix of the id
\* list; and when the request succeeds without an early stop they cover the
\* N ids exactly once, in ceil(N/10) calls.
C8_ChunkPartition ==
    route = "captures" =>
    LET ids == h.interactionIds
        N == Len(ids)
        m == Len(ChunkCalls)
    IN /\ \A j \in 1..m :
             /\ Len(ChunkCalls[j].payload.ids) >= 1
             /\ Len(ChunkCalls[j].payload.ids) <= 10
             /\ \A x \in 1..Len(ChunkCalls[j].payload.ids) :
                   10 * (j - 1) + x <= N
                   /\ ChunkCalls[j].payload.ids[x] = ids[10 * (j - 1) + x]
       /\ \A j \in 1..(m - 1) : Len(ChunkCalls[j].payload.ids) = 10
       /\ (h.pc = "done" /\ response.status = 200 /\ N > 0
            /\ (variant = "tasks" \/ Len(h.allCaptures) < Limit))
          => /\ ConcatIds(ChunkCalls) = ids
             /\ m = (N + 9) \div 10

\* A request with 21 ids ran to a success response in three primary capture
\* calls, of 10, 10 and 1 ids.
C8_Witness ==
    /\ route = "captures" /\ h.pc = "done" /\ response.status = 200
    /\ Len(h.interactionIds) = 21
    /\ Len(ChunkCalls) = 3
    /\ Len(ChunkCalls[3].payload.ids) = 1
    /\ Cardinality({h.interactionIds[x] : x \in 1..21}) = 21

\* C9: no capture request is issued once the capture records received so far
\* are as many as the caller's limit.
C9_EarlyStop ==
    route = "captures" =>
    \A k \in 1..Len(calls) :
       calls[k].step \in {"cap", "capAlt"} => ReceivedBefore(k) < Limit

\* C10: the items of a success response of GET /api/captures/recent are in
\* descending order of createdAt, an item with a null createdAt counting as
\* older than every item that has one.
C10_SortedNewestFirst ==
    (route = "captures" /\ variant \in {"fallback", "graphql"} /\ response.status = 200)
    => \A k \in 1..(Len(response.items) - 1) :
          LET a == response.items[k].createdAt
              b == response.items[k + 1].createdAt
          IN b = Null \/ (a # Null /\ DateMs(a) >= DateMs(b))

----------------------------------------------------------------------------
\* The capture an item of the response was made of, and the interactions
\* that carry the capture's interactionId (as strings).
CaptureOf(item) ==
    CHOOSE c \in {h.allCaptures[k] : k \in 1..Len(h.allCaptures)} :
        Or(c.captureId, Or(c.id, Null)) = item.captureId
JoinedAt(c) ==
    {j \in 1..Len(h.interactions) :
        StringOf(h.interactions[j].interactionId) = StringOf(c.interactionId)}
LastOf(S) == CHOOSE j \in S : \A x \in S : x <= j

\* C11 as stated: durationSec is null when the joined interaction lacks
\* startTime or endTime, and otherwise a non-negative integer equal to
\* round((endTime - startTime) / 1000).
C11_DurationRounded ==
    (route = "captures" /\ variant \in {"fallback", "graphql"} /\ response.status = 200)
    => \A k \in 1..Len(response.items) :
          LET item == response.items[k]
              J == JoinedAt(CaptureOf(item))
              ix == h.interactions[LastOf(J)]
          IN IF J = {} \/ Falsy(ix.startTime) \/ Falsy(ix.endTime)
             THEN item.durationSec = NoNumber
             ELSE /\ item.durationSec # NoNumber
                  /\ item.durationSec[1] >= 0
                  /\ LET d == DateMs(ix.endTime) - DateMs(ix.startTime)
                         r == item.durationSec[1]
                     IN 1000 * r - 500 <= d /\ d < 1000 * r + 500

\* C11 amended: durationSec is null when the joined interaction lacks
\* startTime or endTime or one of them is not a date, and otherwise it is
\* max(0, round((endTime - startTime) / 1000)), halves rounded up: 0 when the
\* end is before the start.
C11_DurationClamped ==
    (route = "captures" /\ variant \in {"fallback", "graphql"} /\ response.status = 200)
    => \A k \in 1..Len(response.items) :
          LET item == response.items[k]
              J == JoinedAt(CaptureOf(item))
              ix == h.interactions[LastOf(J)]
          IN IF J = {} \/ Falsy(ix.startTime) \/ Falsy(ix.endTime)
             THEN item.durationSec = NoNumber
             ELSE IF ix.endTime = "n/a" \/ ix.startTime = "n/a"
             THEN item.durationSec = NoNumber
             ELSE /\ item.durationSec # NoNumber
                  /\ LET d == DateMs(ix.endTime) - DateMs(ix.startTime)
                         r == item.durationSec[1]
                     IN IF d < 0 - 500 THEN r = 0
                        ELSE 1000 * r - 500 <= d /\ d < 1000 * r + 500

\* A response with the capture of an interaction that lasted 300.5 s
\* (durationSec 301) and the capture of one whose end is before its start
\* (durationSec 0).
C11_Witness ==
    /\ h.pc = "done" /\ response.status = 200 /\ Len(response.items) = 2
    /\ \E a, b \in 1..2 :
          /\ response.items[a].interactionId = "X1"
          /\ response.items[a].durationSec = <<301>>
          /\ response.items[b].interactionId = "X3"
          /\ response.items[b].durationSec = <<0>>

\* C12: the response never holds more items than the effective limit: the
\* limit parameter capped at 1000, 200 when it is absent.  (No limit admits
\* fewer than zero items, so a limit below zero is read as admitting none.)
C12_AtMostLimit ==
    (route = "captures" /\ variant \in {"fallback", "graphql"} /\ response.status = 200)
    => LET asked == IF req.limit = Undefined THEN 200 ELSE NumberOf(req.limit)
           effective == IF asked > 1000 THEN 1000 ELSE asked
       IN Len(response.items) <= (IF effective < 0 THEN 0 ELSE effective)

\* C13: when a search or capture call fails with a status other than 404 and
\* 400, or a fallback call fails with any status, it is the request's last
\* call and the request ends with an error response whose status is the
\* upstream status, 500 when the upstream gave none; never with a success.
C13_UpstreamStatusPreserved ==
    \A k \in 1..Len(calls) :
       (/\ calls[k].settled
        /\ \/ calls[k].step \in {"search", "cap"} /\ calls[k].status \notin {200, 404, 400}
           \/ calls[k].step \in {"altSearch", "capAlt", "retry"} /\ calls[k].status # 200)
       => /\ k = Len(calls)
          /\ h.pc = "done"
          /\ response.status # 200
          /\ response.status = (IF calls[k].status = 0 THEN 500 ELSE calls[k].status)
          /\ response.items = <<>>

\* The second capture query of a request answered 503 after the first had
\* delivered captures, and the request ended with 503.
C13_Witness ==
    /\ route = "captures" /\ h.pc = "done"
    /\ Len(ChunkCalls) = 2
    /\ ChunkCalls[1].status = 200 /\ Len(ChunkCalls[1].items) > 0
    /\ ChunkCalls[2].status = 503
    /\ response.status = 503

\* C14: when the client-credentials grant call fails with an HTTP status,
\* the request ends with an error response that carries that status.
C14_GrantStatusPreserved ==
    \A k \in 1..Len(calls) :
       (calls[k].step = "token" /\ calls[k].settled /\ calls[k].status \notin {200, NoStatus})
       => /\ h.pc = "done"
          /\ response.status = calls[k].status

\* The capture records the capture calls of the log delivered, in order.
RECURSIVE ConcatItems(_)
ConcatItems(cs) ==
    IF cs = <<>> THEN <<>>
    ELSE (IF Head(cs).step \in {"cap", "capAlt"} THEN Head(cs).items ELSE <<>>)
         \o ConcatItems(Tail(cs))

\* C15: in part_002, when a batch's capture query answers 404, the next call
\* is the fallback capture search for exactly the ids of that batch; what it
\* delivers is accumulated with the other batches' captures; a call that
\* follows it is the primary capture query of the next batch; and the
\* request does not end with that 404.
C15_PerBatchFallback ==
    (variant = "fallback" /\ route = "captures") =>
    /\ h.allCaptures = ConcatItems(calls)
    /\ \A k \in 1..Len(calls) :
          (calls[k].step = "cap" /\ calls[k].settled /\ calls[k].status = 404)
          => /\ Len(calls) > k
             /\ calls[k + 1].step = "capAlt"
             /\ calls[k + 1].ep = "data/historical/captures/search"
             /\ calls[k + 1].payload.ids = calls[k].payload.ids
             /\ calls[k + 1].payload.limit = Len(calls[k].payload.ids)
             /\ Len(calls) > k + 1
                => /\ calls[k + 1].status = 200
                   /\ calls[k + 2].step = "cap"
                   /\ calls[k + 2].ep = calls[k].ep
                   /\ calls[k + 2].payload.ids # calls[k].payload.ids

\* The first batch's query answered 404, its fallback search delivered a
\* capture, the second batch went to the primary query again, which delivered
\* another, and the response holds both.
C15_Witness ==
    /\ variant = "fallback" /\ route = "captures" /\ h.pc = "done"
    /\ response.status = 200 /\ Len(response.items) = 2
    /\ Len(calls) >= 4
    /\ \E k \in 1..(Len(calls) - 2) :
          /\ calls[k].step = "cap" /\ calls[k].status = 404
          /\ calls[k + 1].step = "capAlt" /\ calls[k + 1].status = 200
          /\ Len(calls[k + 1].items) = 1
          /\ calls[k + 2].step = "cap" /\ calls[k + 2].status = 200
          /\ Len(calls[k + 2].items) = 1
          /\ Len(calls[k + 2].payload.ids) = 1

\* C16: a request that carries "Authorization: Bearer <token>" causes no
\* grant call, and every upstream call of the request carries that token.
C16_ForwardedTokenUsed ==
    req.auth =>
    /\ grantCalls = 0
    /\ \A k \in 1..Len(calls) :
          /\ calls[k].step # "token"
          /\ calls[k].token = FwdToken

\* C17: in part_002 and server.js, a request without a forwarded bearer
\* token, served while the client id or secret is not configured, is answered
\* with an error (500, "Service credentials missing") and no upstream call
\* is issued for it.
C17_NoCredentialsNoCall ==
    (variant \in {"fallback", "graphql"} /\ ~req.auth /\ ~cfg.creds /\ h.pc # "start")
    => /\ h.pc = "done"
       /\ calls = <<>>
       /\ response.status = 500
       /\ response.error = "Service credentials missing"
       /\ response.items = <<>>

\* Such a request, valid otherwise, has been answered.
C17_Witness ==
    /\ variant = "fallback" /\ route = "captures"
    /\ ~req.auth /\ ~cfg.creds /\ req.agentEmail = "a@b.com"
    /\ h.pc = "done" /\ response.status = 500 /\ calls = <<>>

\* C18: a GET /api/interactions request whose agentEmail is missing or blank
\* is answered 400, whether or not a credential can be obtained for it.
C18_BlankAgentAlways400 ==
    (/\ route = "interactions"
     /\ (req.agentEmail = Undefined \/ req.agentEmail = " ")
     /\ h.pc = "done")
    => response.status = 400

\* C20: a success response of GET /api/captures/recent carries an items list
\* and a window, also when the interaction search found nothing.  (Stated for
\* part_002 and server.js:447; part_000 answers {items, count}.)
C20_WindowInEveryResponse ==
    (route = "captures" /\ variant \in {"fallback", "graphql"} /\ response.status = 200)
    => response.window

\* C19: when an agentEmail is requested, a capture without any agent email
\* is not excluded, and a capture with agent emails is kept exactly when one
\* of them is the requested email ignoring case.  (Read on the captures the
\* other filters let pass: recent ones with a media link.)
C19_AgentFilter ==
    (/\ variant \in {"scan", "cachedScan"} /\ response.status = 200
     /\ req.agentEmail \in {"a@b.com", "A@B.COM"})
    => LET body == calls[Len(calls)].items
           Emails(c) == {c.agentEmail, c.agentDotEmail, c.participantEmail} \ {Undefined}
           Kept(c) == \E k \in 1..Len(response.items) :
                         (IF "captureId" \in DOMAIN response.items[k]
                          THEN response.items[k].captureId ELSE response.items[k].id) = c.id
       IN \A j \in 1..Len(body) :
             (body[j].createdAt = TLate /\ body[j].url # Undefined)
             => IF Emails(body[j]) = {} THEN Kept(body[j])
                ELSE Kept(body[j]) <=> (Emails(body[j]) \cap {"a@b.com", "A@B.COM"} # {})

----------------------------------------------------------------------------
\* C21: for every item of the response and every interaction of the search
\* result whose interactionId equals, as strings, the interactionId of the
\* item's capture, the item's ani, queueName and disposition are the
\* interaction's (null when it has none) and its durationSec is the
\* interaction's duration in seconds (null without both times).
C21_JoinedFields ==
    (route = "captures" /\ variant \in {"fallback", "graphql"} /\ response.status = 200)
    => \A k \in 1..Len(response.items), j \in 1..Len(h.interactions) :
          LET item == response.items[k]
              c == CaptureOf(item)
              ix == h.interactions[j]
              Field(x) == IF x = Undefined THEN Null ELSE x
          IN StringOf(c.interactionId) = StringOf(ix.interactionId)
             => /\ item.ani = Field(ix.ani)
                /\ item.queueName = Field(ix.queueName)
                /\ item.disposition = Field(ix.disposition)
                /\ IF ix.startTime = Undefined \/ ix.endTime = Undefined
                   THEN item.durationSec = NoNumber
                   ELSE /\ item.durationSec # NoNumber
                        /\ 1000 * item.durationSec[1]
                              = DateMs(ix.endTime) - DateMs(ix.startTime)

\* The search answered interaction X1 of 300000 ms, the capture query answered
\* capture C1 of X1 with a downloadUrl, and the response is the one item
\* {captureId C1, interactionId X1, that url, durationSec 300}.
C21_Witness ==
    /\ route = "captures" /\ h.pc = "done" /\ response.status = 200
    /\ Len(h.interactions) = 1
    /\ h.interactions[1].interactionId = "X1"
    /\ DateMs(h.interactions[1].endTime) - DateMs(h.interactions[1].startTime) = 300000
    /\ Len(h.allCaptures) = 1
    /\ h.allCaptures[1].captureId = "C1"
    /\ h.allCaptures[1].downloadUrl = "https://media/1"
    /\ Len(response.items) = 1
    /\ response.items[1].captureId = "C1"
    /\ response.items[1].interactionId = "X1"
    /\ response.items[1].url = "https://media/1"
    /\ response.items[1].durationSec = <<300>>
    /\ response.items[1].ani = "+15550001"

----------------------------------------------------------------------------
\* C22: on GET /api/capture/:id/stream, when the upstream fails, before the
\* first byte or after the relay has started, the relay is ended and the
\* caller is answered the upstream status, 500 when the upstream gave none;
\* and a relay that succeeds carries the upstream's Content-Type, audio/mpeg
\* when the upstream sent none.
C22_StreamErrorsReported ==
    route = "stream" =>
    LET download == calls[Len(calls)]
        UpstreamFailed ==
            \/ h.pc \in {"stalled", "crashed"}
            \/ /\ calls # <<>> /\ download.step = "download"
               /\ download.settled /\ download.status # 200
    IN /\ UpstreamFailed
          => /\ response.ended
             /\ response.status
                   = (IF h.pc \in {"stalled", "crashed"} \/ download.status = 0
                      THEN 500 ELSE download.status)
       /\ (h.pc = "done" /\ response.status = 200)
          => response.contentType \in {"audio/wav", "audio/mpeg"}

----------------------------------------------------------------------------
\* C23: in part_000, when ORG_ID is not configured and the token carries no
\* org id, no search or capture call is ever issued, and a request that has
\* its token is answered 500 "missing_org_id"; and when ORG_ID is configured,
\* every search and capture call carries it, whatever the token carries.
C23_MissingOrgIdFailsFast ==
    (variant = "tasks" /\ route = "captures") =>
    /\ (~cfg.orgId /\ ~cfg.tokenOrg)
       => /\ \A k \in 1..Len(calls) : calls[k].step \notin {"search", "cap"}
          /\ h.token # NoTokenYet
             => /\ h.pc = "done"
                /\ response.status = 500
                /\ response.error = "missing_org_id"
    /\ cfg.orgId
       => \A k \in 1..Len(calls) :
             calls[k].step \in {"search", "cap"} => calls[k].payload.orgId = "ORG_ID"

\* Without any org id, a request with an agentEmail got its token from the
\* grant call and was answered missing_org_id after that one call.
C23_Witness ==
    /\ variant = "tasks" /\ ~cfg.orgId /\ ~cfg.tokenOrg
    /\ req.agentEmail = "a@b.com"
    /\ Len(calls) = 1 /\ calls[1].step = "token" /\ calls[1].status = 200
    /\ h.pc = "done" /\ response.error = "missing_org_id"

----------------------------------------------------------------------------
\* C24: the task search of part_000 follows pageInfo.hasNextPage page by
\* page: a search call that answered hasNextPage is followed by the search
\* call of the next page, until five pages have been fetched; so a request
\* whose search has answered has issued between one and five search calls.
C24_FollowsPages ==
    (variant = "tasks" /\ route = "captures") =>
    LET searches == {k \in 1..Len(calls) : calls[k].step = "search"}
    IN /\ Cardinality(searches) <= 5
       /\ \A k \in searches :
             (calls[k].settled /\ calls[k].status = 200 /\ calls[k].hasNextPage
              /\ Cardinality({j \in searches : j <= k}) < 5)
             => /\ Len(calls) > k
                /\ calls[k + 1].step = "search"

----------------------------------------------------------------------------
\* C25: a GET /api/recordings request without interactionId is answered 400
\* and no recordings call is issued for it; with an interactionId, when the
\* recordings call answers a non-empty list the response is the first record
\* as {recordingId, url, startTime}, and when it answers no record the
\* response is {urls: []}.
C25_Recordings ==
    (route = "recordings" /\ h.pc = "done") =>
    IF req.interactionId = Undefined
    THEN /\ response.status = 400
         /\ \A k \in 1..Len(calls) : calls[k].step # "recordings"
    ELSE \A k \in 1..Len(calls) :
            (calls[k].step = "recordings" /\ calls[k].status = 200)
            => /\ response.status = 200
               /\ IF Len(calls[k].items) > 0
                  THEN LET r == calls[k].items[1]
                           First(a, b) == IF a # Undefined THEN a ELSE b
                       IN /\ response.body.kind = "recording"
                          /\ response.body.recordingId = First(r.recordingId, r.id)
                          /\ response.body.url
                                = First(r.url, First(r.playbackUrl, r.downloadUrl))
                          /\ response.body.startTime = First(r.startTime, r.createdAt)
                  ELSE response.body = [kind |-> "urls", urls |-> <<>>]

----------------------------------------------------------------------------
\* C26: within one GET /api/captures/recent request at most one capture
\* request, primary or fallback, is outstanding at any time; every capture
\* request but the last issued has completed; and the primary request of a
\* batch follows either a search, or a primary request that delivered, or
\* the fallback request of the batch before it, that delivered.
C26_SequentialChunks ==
    route = "captures" =>
    LET IsCapture(k) == calls[k].step \in {"cap", "capAlt"}
    IN /\ Cardinality({k \in 1..Len(calls) : IsCapture(k) /\ ~calls[k].settled}) <= 1
       /\ \A k \in 1..Len(calls) :
             IsCapture(k) =>
             /\ k < Len(calls) => calls[k].settled
             /\ (k > 1 /\ IsCapture(k - 1))
                => /\ calls[k - 1].settled
                   /\ IF calls[k].step = "capAlt"
                      THEN calls[k - 1].step = "cap" /\ calls[k - 1].status = 404
                      ELSE calls[k - 1].status = 200

\* A request of 21 ids whose first batch went through the fallback and whose
\* three batches completed one after the other.
C26_Witness ==
    /\ variant = "fallback" /\ route = "captures" /\ h.pc = "done"
    /\ response.status = 200
    /\ Len(h.interactionIds) = 21
    /\ Len(calls) >= 5
    /\ \E k \in 1..(Len(calls) - 3) :
          /\ calls[k].step = "cap" /\ calls[k].status = 404
          /\ calls[k + 1].step = "capAlt" /\ calls[k + 1].status = 200
          /\ calls[k + 2].step = "cap" /\ calls[k + 2].status = 200
          /\ calls[k + 3].step = "cap" /\ calls[k + 3].status = 200
    /\ \A k \in 1..Len(calls) : calls[k].settled

----------------------------------------------------------------------------
\* C27: the items of the response do not depend on the order of the id
\* list: against the same capture store, the request answers the same list
\* for every order of the ids.
C27_OrderIndependent ==
    (route = "captures" /\ h.pc = "done" /\ response.status = 200)
    => \A ids \in PermOrders :
          NormalizedItems(FbLoop(ids, 0, <<>>, h.upstream, Limit), PermIx(ids), Limit)
             = response.items

----------------------------------------------------------------------------
\* C28: in part_002 a fallback call (the secondary search, the retry without
\* the agent filter, the fallback capture search) directly follows a primary
\* call that answered 404 (400 for the retry, on the interactions route
\* only), so no fallback follows a fallback; a fallback call that fails, and
\* a primary call that fails with anything but its fallback status, is the
\* last call of the request, which ends with an error; and a fallback that
\* succeeds does not fail the request.
C28_FallbackStateMachine ==
    variant = "fallback" =>
    \A k \in 1..Len(calls) :
       LET c == calls[k]
           IsFallback == c.step \in {"altSearch", "retry", "capAlt"}
           IsPrimary == c.step \in {"search", "cap"}
           FallsBack == \/ c.status = 404
                        \/ c.status = 400 /\ c.step = "search" /\ route = "interactions"
       IN /\ IsFallback
             => /\ k > 1
                /\ calls[k - 1].settled
                /\ calls[k - 1].step = (IF c.step = "capAlt" THEN "cap" ELSE "search")
                /\ calls[k - 1].status = (IF c.step = "retry" THEN 400 ELSE 404)
                /\ c.step = "retry" => route = "interactions"
                /\ c.ep # "oauth/token"
          /\ (c.settled /\ c.status # 200 /\ (IsFallback \/ (IsPrimary /\ ~FallsBack)))
             => /\ k = Len(calls)
                /\ h.pc = "done"
                /\ response.status \notin {0, 200}
          /\ (c.settled /\ c.status = 200 /\ IsFallback /\ h.pc = "done" /\ k = Len(calls))
             => response.status = 200

\* On the interactions route the primary search answered 404 and the
\* secondary search answered 400: the request failed with 400 after these
\* two calls, without a retry.
C28_Witness ==
    /\ variant = "fallback" /\ route = "interactions" /\ h.pc = "done"
    /\ Len(calls) >= 2
    /\ calls[Len(calls) - 1].step = "search" /\ calls[Len(calls) - 1].status = 404
    /\ calls[Len(calls)].step = "altSearch" /\ calls[Len(calls)].status = 400
    /\ response.status = 400

----------------------------------------------------------------------------
\* C29: a getAccessToken call made while the cached token is expired and
\* another call's grant is still outstanding issues a grant call of its own
\* and leaves the other's alone (there is no single-flight lock); each call
\* whose grant succeeds returns the token of its own grant response; and
\* after each grant response is processed the cache holds that response's
\* token, so in the end the token of the response processed last.
C29_RacingRefreshes ==
    [][\A p \in Callers : \A q \in Callers \ {p} :
          /\ (/\ tcalls'[p] = tcalls[p] + 1
              /\ tpc[q] = "grant"
              /\ ~(tokenCache.access_token # NoToken /\ tokenCache.expires_at > clock + 60))
             => /\ grantCalls' = grantCalls + 1
                /\ tpc'[p] = "grant" /\ tpc'[q] = "grant"
                /\ tcallGrants'[p] = 1 /\ tcallGrants'[q] = tcallGrants[q]
                /\ grantResp'[q] = grantResp[q]
          /\ (tpc[p] = "grant" /\ tpc'[p] = "idle" /\ grantResp[p].status = 200)
             => /\ tret'[p] = grantResp[p].access_token
                /\ tret'[q] = tret[q]
                /\ tokenCache'.access_token = grantResp[p].access_token
                /\ grantCalls' = grantCalls]_vars

\* Both callers called once while no token was cached; two grant calls were
\* issued; caller 1 got the second token granted and caller 2 the first; and
\* caller 2's response was processed last, so the cache holds the first
\* token granted.
C29_Witness ==
    /\ tcalls[1] = 1 /\ tcalls[2] = 1
    /\ tpc[1] = "idle" /\ tpc[2] = "idle"
    /\ grantCalls = 2 /\ grantSeq = 2
    /\ tret[1] = 2 /\ tret[2] = 1
    /\ tokenCache.access_token = 1

----------------------------------------------------------------------------
\* C30: a step changes the token cache only when it is the step of
\* getAccessToken that processes a successful grant response; a call that
\* hits the cache, a grant that fails, and every other step of a request
\* handler leave access_token and expires_at as they were.
C30_CacheFrame ==
    [][/\ tokenCache' # tokenCache
          => \/ \E p \in Callers :
                   tpc[p] = "grant" /\ tpc'[p] = "idle" /\ grantResp[p].status = 200
             \/ /\ h.pc = "token"
                /\ Len(calls') = Len(calls) \/ Len(calls') = Len(calls) + 1
                /\ calls'[Len(calls)].step = "token"
                /\ calls'[Len(calls)].settled
                /\ calls'[Len(calls)].status = 200
       /\ (h.pc = "token" /\ calls'[Len(calls)].status # 200)
          => tokenCache' = tokenCache
       /\ \A p \in Callers :
             (tcalls'[p] = tcalls[p] + 1 /\ tpc'[p] = "idle")
             \/ (tpc[p] = "grant" /\ tpc'[p] = "idle" /\ grantResp[p].status # 200)
             => tokenCache' = tokenCache]_vars

\* A request found the cache empty, its grant wrote the first token, and its
\* search and capture calls left the cache as the grant wrote it.
C30_Witness ==
    /\ variant = "tasks" /\ h.pc = "done" /\ response.status = 200
    /\ Len(calls) >= 3
    /\ calls[1].step = "token" /\ calls[1].status = 200
    /\ grantSeq = 1
    /\ tokenCache = [access_token |-> 1, expires_at |-> h.now + 3600]

----------------------------------------------------------------------------
\* C31: a getAccessToken call returns the cached token only when the cache
\* holds one and expires_at > now + 60 at the time of the call; and a grant
\* whose expires_in is 60 seconds or less leaves a cache entry that is not
\* valid when it is written, nor later, the clock never going back: such a
\* token is never served from the cache.
C31_MarginBeforeExpiry ==
    [][/\ clock' >= clock
       /\ \A p \in Callers :
             /\ (tcalls'[p] = tcalls[p] + 1 /\ tpc'[p] = "idle")
                => /\ tokenCache.access_token # NoToken
                   /\ tokenCache.expires_at > clock + 60
                   /\ tret'[p] = tokenCache.access_token
             /\ (/\ tpc[p] = "grant" /\ tpc'[p] = "idle" /\ grantResp[p].status = 200
                 /\ grantResp[p].expires_in \in 1..60)
                => /\ tokenCache'.access_token = grantResp[p].access_token
                   /\ tokenCache'.expires_at <= tnow[p] + 60
                   /\ tokenCache'.expires_at <= clock' + 60]_vars

\* The first grant answered a token of 60 seconds, which was written to the
\* cache; caller 1 called again at once and, the cached token being within
\* the margin, issued a second grant call.
C31_Witness ==
    /\ tcalls[1] = 2 /\ tcalls[2] = 0
    /\ clock = 0
    /\ tokenCache.access_token = 1 /\ tokenCache.expires_at = 60
    /\ tret[1] = 1
    /\ tpc[1] = "grant" /\ grantCalls = 2

----------------------------------------------------------------------------
\* The media links of a capture in the order in which they are tried.
LinkCandidates(c) ==
    <<c.url, c.playbackUrl, c.downloadUrl, c.mediaFiles0Url,
      c.linksPlayback, c.linksDownload>>

\* C32: the media URL of an emitted item is the first non-empty value among
\* url, playbackUrl, downloadUrl, mediaFiles[0].url, links.playback,
\* links.download of its capture; a later candidate is used only when every
\* earlier one is absent.
C32_FirstNonEmptyUrl ==
    (route = "captures" /\ variant \in {"fallback", "graphql"} /\ response.status = 200)
    => \A k \in 1..Len(response.items) :
          LET links == LinkCandidates(CaptureOf(response.items[k]))
          IN \E n \in 1..Len(links) :
                /\ ~Falsy(links[n])
                /\ response.items[k].url = links[n]
                /\ \A m \in 1..(n - 1) : Falsy(links[m])

\* A response with the capture whose url is the empty string, answered with
\* its playback link, and the capture that has only links, answered with
\* links.playback.
C32_Witness ==
    /\ response.status = 200
    /\ Len(response.items) = 2
    /\ \E k \in 1..2 : response.items[k].captureId = "N2"
                        /\ response.items[k].url = "https://media/2"
    /\ \E k \in 1..2 : response.items[k].captureId = "N6"
                        /\ response.items[k].url = "https://media/6"

----------------------------------------------------------------------------
\* The search of GET /api/captures/recent answered with no records.
EmptySearch ==
    \E k \in 1..Len(calls) :
        /\ calls[k].step \in {"search", "altSearch"}
        /\ calls[k].settled /\ calls[k].status = 200
        /\ calls[k].items = <<>>

\* C33: when the interaction/task search of GET /api/captures/recent
\* returns no records, the handler responds with success and an empty items
\* list and issues no capture query at all.
C33_EmptySearchNoCaptureQuery ==
    (route = "captures" /\ variant \in Variants /\ EmptySearch)
    => /\ h.pc = "done"
       /\ response.status = 200
       /\ response.items = <<>>
       /\ \A k \in 1..Len(calls) : calls[k].step \notin {"cap", "capAlt"}

\* The fallback variant answers an empty secondary search, after the primary
\* search was not found.
C33_Witness ==
    /\ route = "captures" /\ variant = "fallback"
    /\ Len(calls) = 2
    /\ calls[1].step = "search" /\ calls[1].status = 404
    /\ calls[2].step = "altSearch" /\ calls[2].status = 200 /\ calls[2].items = <<>>
    /\ response.status = 200 /\ response.items = <<>>

----------------------------------------------------------------------------
\* The cache is written from the grant response that caller p holds.
WrittenFrom(p) ==
    /\ tpc[p] = "grant" /\ tpc'[p] = "idle"
    /\ grantResp[p] # NoResp /\ grantResp[p].status = 200
    /\ tokenCache'.access_token = grantResp[p].access_token

\* C34 as stated: under every interleaving of concurrent getAccessToken
\* calls, the cached access_token and expires_at come from the same grant
\* response, and expires_at is never later than that grant's request start
\* time plus its expires_in.
C34_ExpiryWithinGrant ==
    [][tokenCache' # tokenCache
       => \E p \in Callers :
             /\ WrittenFrom(p)
             /\ tokenCache'.expires_at <= tnow[p] + grantResp[p].expires_in]_vars

\* C34, amended: under every interleaving of concurrent getAccessToken
\* calls, the cached access_token and expires_at come from the same grant
\* response, and expires_at is never later than that grant's request start
\* time plus its expires_in, or plus 3600 seconds when the response carries
\* no expires_in (or a zero one).
C34_PairFromOneGrant ==
    [][tokenCache' # tokenCache
       => \E p \in Callers :
             /\ WrittenFrom(p)
             /\ tokenCache'.expires_at
                   <= tnow[p] + (IF grantResp[p].expires_in = 0 THEN 3600
                                 ELSE grantResp[p].expires_in)]_vars

\* Two calls raced: caller 1 started at 0 and was granted token 1 for 100 s,
\* caller 2 started at 20 and was granted token 2 for 60 s; the response of
\* caller 1 was processed last, and the cache holds its pair.
C34_Witness ==
    /\ tpc = [p \in Callers |-> "idle"]
    /\ grantCalls = 2 /\ grantSeq = 2
    /\ tnow[1] = 0 /\ tnow[2] = 20
    /\ tret[1] = 1 /\ tret[2] = 2
    /\ tokenCache = [access_token |-> 1, expires_at |-> 100]

----------------------------------------------------------------------------
\* The loop was left by its `break` with batches still to query: `i` stands
\* at the batch it broke at, and ids lie beyond that batch (part_002:285-299).
StoppedEarly ==
    h.i + MAX_IDS_PER_CAPTURE_QUERY < Len(h.interactionIds)

\* C35: the early stop of the capture loop loses no results: whenever the
\* loop stops before all chunks were queried, the items list of the response
\* contains exactly limit items.  Stated for the requests whose search
\* answered no more interactions than the limit it was given.
C35_EarlyStopLosesNothing ==
    (/\ route = "captures" /\ variant \in {"fallback", "graphql"}
     /\ h.pc = "done" /\ response.status = 200
     /\ Len(h.interactions) <= Limit
     /\ StoppedEarly)
    => Len(response.items) = Limit

----------------------------------------------------------------------------
\* C36: a capture record that has no interactionId is never joined to an
\* interaction record: its item has null ani, queueName, disposition and
\* durationSec, whatever interaction records the search returned, those
\* without an interactionId included.
C36_NoJoinWithoutId ==
    (route = "captures" /\ variant \in {"fallback", "graphql"} /\ response.status = 200)
    => \A k \in 1..Len(response.items) :
          response.items[k].interactionId = Null
          => /\ response.items[k].ani = Null
             /\ response.items[k].queueName = Null
             /\ response.items[k].disposition = Null
             /\ response.items[k].durationSec = NoNumber

----------------------------------------------------------------------------
\* The request has been answered and the answer is complete: a JSON body is
\* written and ended in one call, a relay is complete when it was ended.
Completed ==
    /\ h.pc = "done"
    /\ response.status # 0
    /\ (route = "stream" => response.ended)

\* The part of C37 about GET /api/captures/recent and GET /api/interactions:
\* with every upstream call settling, the request is eventually answered.
JsonRoutesCompleted == <>Completed

\* C37: every request to /api/captures/recent, /api/interactions and
\* /api/capture/:id/stream receives one response and that response is
\* eventually completed, provided every upstream call eventually succeeds or
\* fails; a relay whose upstream fails after the headers were sent still ends
\* the caller's response.
C37_EveryRequestCompleted ==
    (route = "stream") => <>Completed

============================================================================
